---- MODULE Spec2Model ----
(***************************************************************************)
(* Job orchestration of the GitHub AI code editor: the bounded worker     *)
(* pools of handleBulkAiSubmit and handleGenerateProject (src/App.tsx),    *)
(* of handleMultiFileEditSubmit (the App component kept in                 *)
(* src/components/FileExplorer.tsx), and the repository-creation retry     *)
(* loop.  JavaScript runs one task at a time: an action is the code that   *)
(* runs from one resumption (a network response, a stream fragment, a     *)
(* timer) up to the next await on such an event.                           *)
(***************************************************************************)
EXTENDS Integers, Sequences, FiniteSets, Bags, TLC

\* ------------------------------------------------------------------ bounds
\* Three scopes of inputs are explored, each from its own initial states.
\*   "small": batches of 0..MaxJobs jobs, with every stream fragment and
\*            several faults;
\*   "pool":  batches larger than the worker pool, so that workers take a
\*            second job, with one fragment and one fault at most;
\*   "retry": every outcome of the repository-creation loop, followed by a
\*            batch of at most MaxRetryJobs jobs;
\*   "view":  small batches during which the user changes the selection,
\*            opens files, switches branches and closes progress views;
\*   "hang":  batches larger than the worker pool in which the remote call
\*            of one job never returns.
MaxJobs == 2            \* small: most targets in a selection / entries in a plan
MaxChunks == 1          \* small: stream fragments delivered in a run
MaxFaults == 2          \* small: remote calls of jobs that throw
MaxExtraJobs == 1       \* pool: jobs beyond CONCURRENCY_LIMIT
MaxPoolChunks == 1      \* pool, retry: stream fragments delivered in a run
MaxPoolFaults == 1      \* pool, retry: remote calls of jobs that throw
MaxFewCollisions == 1   \* small, pool: repository names found taken
MaxCollisions == 6      \* retry: repository names found taken
MaxRetryJobs == 2       \* retry: most targets in a selection / entries in a plan
MaxViewJobs == 2        \* view: most targets in a selection / entries in a plan
MaxViewEvents == 2      \* view: user events during a run
MaxTabEvents == 3       \* tabs: user events during a run
MaxAgentEvents == 5     \* agent: user events during a run
MaxAgentTurns == 1      \* agent: model turns of a run that ask for tools
MaxRelaunchJobs == 1    \* relaunch: most targets in a selection
MaxRelaunchEvents == 3  \* relaunch: user events during a run

\* ------------------------------------------------------- program constants
CONCURRENCY_LIMIT == 5
maxAttempts == 5

\* --------------------------------------------------------------- strings
\* File contents are sequences of characters, so that trim() is computed.
WhiteSpace == {" ", "\n"}

RECURSIVE TrimStart(_)
TrimStart(s) ==
    IF s # <<>> /\ Head(s) \in WhiteSpace THEN TrimStart(Tail(s)) ELSE s

RECURSIVE TrimEnd(_)
TrimEnd(s) ==
    IF s # <<>> /\ s[Len(s)] \in WhiteSpace
    THEN TrimEnd(SubSeq(s, 1, Len(s) - 1)) ELSE s

Trim(s) == TrimEnd(TrimStart(s))

\* The fragments a stream may deliver (chunk.text); the empty one is dropped
\* by generateStream before the callback.
Fragments == {<<>>, <<"a">>, <<" ">>, <<"b">>}
PoolFragments == {<<"b">>}

\* --------------------------------------------------------------- targets
Repos == {"o/r1", "o/r2"}

\* The i-th file of the explorer: a repository and a path in it.
Target(i) ==
    [repoFullName |-> IF i % 2 = 1 THEN "o/r1" ELSE "o/r2",
     path |-> "f" \o ToString(i)]

MostJobs == CONCURRENCY_LIMIT + MaxExtraJobs + MaxJobs + MaxRetryJobs

AllTargets == {Target(i) : i \in 1..MostJobs}

\* `${repoFullName}::${path}`
FileKey(t) == t.repoFullName \o "::" \o t.path

\* fullPath.split('::') : the two parts the key was joined from.
SplitKey(key) == CHOOSE t \in AllTargets : FileKey(t) = key

\* What the repository host holds for a file before any edit.
InitialContent(i) == IF i % 2 = 1 THEN <<"a">> ELSE <<"a", " ">>

\* ----------------------------------------------------------------- state
VARIABLES
    scope,                  \* "small", "pool" or "retry": the inputs explored
    apiKey,                 \* whether process.env.API_KEY is set
    variant,                \* which App component is running
    selectedFilePaths,      \* the selection (a Set, in insertion order)
    fileTree,               \* repoFullName -> repo metadata
    currentBranchByRepo,    \* repoFullName -> branch ("" when unset)
    openFiles,              \* the open editor tabs
    remote,                 \* the repository host: file key -> content, sha
    handler,                \* position of the running orchestration handler
    initialJobs,            \* the handler's const initialJobs
    bulkEditJobs,           \* React state
    projectGenerationJobs,  \* React state
    taskQueue,              \* the shared queue (indices into initialJobs)
    workers,                \* the CONCURRENCY_LIMIT worker coroutines
    streamState,            \* per queue entry: the generation stream
    commitLog,              \* per queue entry: contents passed to commitFile
    claimCount,             \* per queue entry: times shifted off the queue
    threw,                  \* per queue entry: a step of its processing threw
    conflicted,             \* queue entries whose commit the host refused as stale
    streamLog,              \* per queue entry: the fragments its stream delivered
    phase,                  \* position inside the running handler
    alert,                  \* the last alert shown (type, message)
    repoName,               \* handleGenerateProject's argument
    repoToCreateName,       \* the candidate name of the retry loop
    created,
    attempts,
    newRepo,                \* the repository createRepo returned, or null
    createCalls,            \* number of createRepo calls issued
    lastCreateName,         \* the name passed to the latest createRepo call
    plan,                   \* the plan generateProjectPlan returned
    isGeneratingProject,
    isBulkProgressModalOpen, \* the bulk progress view is shown (isBulkEditing)
    activeFileKey,          \* key of the active editor tab, or null
    loads,                  \* handleOpenFile calls awaiting getFileContent (a bag)
    reloadDue,              \* keys of the tabs the last branch switch closed,
                            \* less those whose load failed since
    refreshed,              \* repositories whose tree a batch fetched and stored
    hung,                   \* the worker whose remote call never returns, or 0
    commits,                \* handleCommit calls awaiting commitFile or the
                            \* getFileContent that follows it (a bag)
    aiAgentState,           \* React state: status and logs (the type of each)
    isAiAgentModalOpen,
    runs,                   \* the runAiAgent calls made, in order
    earlier,                \* the pools of bulk edits that a later one replaced
    lastCall,               \* the handler call of the latest user event, where
                            \* a property speaks of that call; else none
    faultsLeft,
    chunksLeft,
    collisionsLeft,
    uiLeft

agentVars == <<aiAgentState, isAiAgentModalOpen, runs>>
callVars == <<commits, agentVars, earlier>>
uiVars == <<activeFileKey, loads, reloadDue, hung, lastCall, uiLeft, callVars>>
envVars == <<scope, apiKey, variant, selectedFilePaths, fileTree, currentBranchByRepo, openFiles,
             isBulkProgressModalOpen, refreshed, uiVars>>
poolVars == <<handler, phase, alert, initialJobs, bulkEditJobs, projectGenerationJobs,
              taskQueue, workers, streamState, commitLog, claimCount, threw,
              conflicted, streamLog>>
budgetVars == <<faultsLeft, chunksLeft, collisionsLeft>>
projVars == <<repoName, repoToCreateName, created, attempts, newRepo, createCalls,
              lastCreateName, plan, isGeneratingProject>>
vars == <<envVars, remote, poolVars, projVars, budgetVars>>

Workers == 1..CONCURRENCY_LIMIT

NoError == <<>>           \* error: null
Err(message) == <<message>>

IdleWorker == [pc |-> "idle", job |-> 0, newContent |-> <<>>,
               fileContent |-> <<>>, sha |-> 0]
ReturnedWorker == [IdleWorker EXCEPT !.pc = "returned"]

\* prev.map(j => j.id === jobId ? { ...j, ...patch } : j)
PatchJob(j, patch) ==
    [f \in DOMAIN j |-> IF f \in DOMAIN patch THEN patch[f] ELSE j[f]]

UpdateJobs(prev, jobId, patch) ==
    [i \in 1..Len(prev) |->
        IF prev[i].id = jobId THEN PatchJob(prev[i], patch) ELSE prev[i]]

\* ------------------------------------------------------- repository names
\* A repository name is its leading text followed by the numbers of its
\* '-<digits>' segments: <<"demo", 12>> is 'demo-12'.
RepoNames == {<<"demo">>, <<"demo", 12>>}
PoolRepoNames == {<<"demo">>}

\* Math.floor(100 + Math.random() * 900)
Suffixes == {100, 482, 999}
PoolSuffixes == {482}

RECURSIVE NameString(_)
NameString(name) ==
    IF Len(name) = 1 THEN name[1]
    ELSE NameString(SubSeq(name, 1, Len(name) - 1)) \o "-" \o ToString(name[Len(name)])

\* repoName.replace(/-\d+$/, '')
StripNumericSuffix(name) ==
    IF Len(name) > 1 THEN SubSeq(name, 1, Len(name) - 1) ELSE name

\* A candidate that keeps the numeric suffix of the requested name.
CandidateNameKeepsSuffix(name, suffix) == Append(name, suffix)

\* `${repoName.replace(/-\d+$/, '')}-${suffix}`
CandidateName(name, suffix) == Append(StripNumericSuffix(name), suffix)

NullRepo == [name |-> <<>>]

\* ------------------------------------------------------------------ Init
\* The tab handleOpenFile adds for the i-th file.
OpenFile(i) ==
    [repoFullName |-> Target(i).repoFullName, path |-> Target(i).path,
     content |-> InitialContent(i), editedContent |-> InitialContent(i),
     sha |-> 1, defaultBranch |-> "main"]

Selection(n) == [i \in 1..n |-> FileKey(Target(i))]

BatchSizes(sc) ==
    CASE sc = "small" -> 0..MaxJobs
      [] sc \in {"pool", "hang"} ->
            (CONCURRENCY_LIMIT + 1)..(CONCURRENCY_LIMIT + MaxExtraJobs)
      [] sc = "retry" -> 0..MaxRetryJobs
      [] sc = "view" -> 0..MaxViewJobs
      [] sc \in {"tabs", "agent"} -> {0}
      [] sc = "relaunch" -> 1..MaxRelaunchJobs

FragmentsOf(sc) == IF sc = "small" THEN Fragments ELSE PoolFragments
RepoNamesOf(sc) == IF sc = "retry" THEN RepoNames ELSE PoolRepoNames
SuffixesOf(sc) == IF sc = "retry" THEN Suffixes ELSE PoolSuffixes
ChunkBudget(sc) == IF sc = "small" THEN MaxChunks ELSE MaxPoolChunks
FaultBudget(sc) == IF sc = "small" THEN MaxFaults ELSE MaxPoolFaults
CollisionBudget(sc) == IF sc = "retry" THEN MaxCollisions ELSE MaxFewCollisions
EventBudget(sc) ==
    CASE sc = "view" -> MaxViewEvents
      [] sc = "tabs" -> MaxTabEvents
      [] sc = "agent" -> MaxAgentEvents
      [] sc = "relaunch" -> MaxRelaunchEvents
      [] OTHER -> 0

\* The tabs open when a run starts.
OpenAtStart(sc, v) ==
    CASE sc \in {"view", "tabs"} -> {<<>>, <<OpenFile(1), OpenFile(2), OpenFile(3)>>}
      [] sc = "small" /\ v = "FileExplorerApp" -> {<<>>, <<OpenFile(1)>>}
      [] sc \in {"pool", "retry", "hang"} /\ v = "FileExplorerApp" -> {<<OpenFile(1)>>}
      [] sc = "agent" -> {<<>>, <<OpenFile(1)>>}
      [] OTHER -> {<<>>}

NoFile == ""            \* activeFileKey: null
NoCall == <<>>          \* lastCall: no call a property speaks of

\* fetchRepoTree at login: the paths of the files of a repository.
InitialTree(r) == {Target(i).path : i \in {n \in 1..MostJobs : Target(n).repoFullName = r}}

InitScope(sc) ==
    /\ scope = sc
    /\ apiKey \in BOOLEAN
    /\ variant \in {"App", "FileExplorerApp"}
    /\ selectedFilePaths \in {Selection(n) : n \in BatchSizes(sc)}
    /\ fileTree = [r \in Repos |-> [default_branch |-> "main", tree |-> InitialTree(r)]]
    /\ currentBranchByRepo = [r \in Repos |-> IF r = "o/r1" THEN "dev" ELSE ""]
    /\ openFiles \in OpenAtStart(sc, variant)
    /\ activeFileKey = IF openFiles = <<>> THEN NoFile
                       ELSE openFiles[1].repoFullName \o "::" \o openFiles[1].path
    /\ loads = EmptyBag
    /\ lastCall = NoCall
    /\ commits = EmptyBag
    /\ aiAgentState = [status |-> "idle", logs |-> <<>>]
    /\ isAiAgentModalOpen = FALSE
    /\ runs = <<>>
    /\ earlier = <<>>
    /\ reloadDue = {}
    /\ refreshed = {}
    /\ hung = 0
    /\ isBulkProgressModalOpen = FALSE
    /\ uiLeft = EventBudget(sc)
    /\ remote = [k \in {FileKey(t) : t \in AllTargets} |->
                    LET i == CHOOSE n \in 1..MostJobs : FileKey(Target(n)) = k
                    IN [content |-> InitialContent(i), sha |-> 1]]
    /\ handler = "idle"
    /\ phase = "idle"
    /\ alert = <<>>
    /\ initialJobs = <<>>
    /\ bulkEditJobs = <<>>
    /\ projectGenerationJobs = <<>>
    /\ taskQueue = <<>>
    /\ workers = [w \in Workers |-> IdleWorker]
    /\ streamState = <<>>
    /\ commitLog = <<>>
    /\ claimCount = <<>>
    /\ threw = <<>>
    /\ conflicted = {}
    /\ streamLog = <<>>
    /\ repoName = <<>>
    /\ repoToCreateName = <<>>
    /\ created = FALSE
    /\ attempts = 0
    /\ newRepo = NullRepo
    /\ createCalls = 0
    /\ lastCreateName = <<>>
    /\ plan = <<>>
    /\ isGeneratingProject = FALSE
    /\ faultsLeft = FaultBudget(sc)
    /\ chunksLeft = ChunkBudget(sc)
    /\ collisionsLeft = CollisionBudget(sc)

Init == InitScope("small")
InitPool == InitScope("pool")
InitRetry == InitScope("retry")
InitView == InitScope("view")
InitHang == InitScope("hang")
InitTabs == InitScope("tabs")
InitAgent == InitScope("agent")
InitRelaunch == InitScope("relaunch")

\* ------------------------------------------------------- the worker pool
\* The branch a bulk edit reads and writes:
\* currentBranchByRepo[repo] || fileTree[repo].repo.default_branch
BranchOf(repoFullName) ==
    IF currentBranchByRepo[repoFullName] # ""
    THEN currentBranchByRepo[repoFullName]
    ELSE fileTree[repoFullName].default_branch

\* The part of processJob / processFile that runs when a worker calls it, up
\* to its first await: the job list after it and where the call is suspended
\* ("" when it returned without awaiting anything).
StartJob(kind, ij, e, jobs) ==
    LET jobId == ij[e].id
        repo == SplitKey(jobId).repoFullName
    IN CASE kind = "bulk" ->
              IF BranchOf(repo) = ""
              THEN [jobs |-> UpdateJobs(jobs, jobId,
                                [status |-> "failed",
                                 error |-> Err("Could not determine branch.")]),
                    pc |-> ""]
              ELSE [jobs |-> UpdateJobs(jobs, jobId, [status |-> "processing"]),
                    pc |-> "read"]
         [] kind = "multi" ->
              LET processing == UpdateJobs(jobs, jobId, [status |-> "processing"])
              IN IF repo \notin DOMAIN fileTree
                 THEN [jobs |-> UpdateJobs(processing, jobId,
                                   [status |-> "failed",
                                    error |-> Err("Repo data not found")]),
                       pc |-> ""]
                 ELSE [jobs |-> processing, pc |-> "read"]
         [] kind = "project" ->
              [jobs |-> UpdateJobs(jobs, jobId, [status |-> "generating"]),
               pc |-> "stream"]

\* A queue read that leaves the entry on the queue (taskQueue[0]).
ShiftPeek(queue) == [job |-> Head(queue), rest |-> queue]

\* A queue read from the other end (taskQueue.pop()).
ShiftLast(queue) ==
    [job |-> queue[Len(queue)], rest |-> SubSeq(queue, 1, Len(queue) - 1)]

\* const job = taskQueue.shift(): the entry taken and the queue left.
Shift(queue) == [job |-> Head(queue), rest |-> Tail(queue)]

\* The worker loops of the workers in `ready`, run in turn until each is
\* suspended in an await or has returned: while (taskQueue.length > 0)
\* { job = taskQueue.shift(); await process(job.id) }.  A worker whose call
\* returned without awaiting is resumed after the ones already ready.
RECURSIVE Drain(_, _, _, _)
Drain(kind, ij, ready, st) ==
    IF ready = <<>> THEN st
    ELSE LET w == Head(ready) IN
         IF st.queue = <<>>
         THEN Drain(kind, ij, Tail(ready),
                    [st EXCEPT !.workers[w] = ReturnedWorker])
         ELSE LET e == Shift(st.queue).job
                  r == StartJob(kind, ij, e, st.jobs)
                  taken == [st EXCEPT !.queue = Shift(st.queue).rest,
                                      !.claimCount[e] = @ + 1,
                                      !.jobs = r.jobs]
              IN IF r.pc = ""
                 THEN Drain(kind, ij, Append(Tail(ready), w),
                            [taken EXCEPT !.workers[w] = IdleWorker])
                 ELSE Drain(kind, ij, Tail(ready),
                            [taken EXCEPT
                               !.workers[w] = [IdleWorker EXCEPT !.pc = r.pc,
                                                                 !.job = e],
                               !.streamState[e] =
                                   IF r.pc = "stream" THEN "open" ELSE @])

JobsOf(kind) == IF kind = "project" THEN projectGenerationJobs ELSE bulkEditJobs

PoolState ==
    [jobs |-> JobsOf(handler), queue |-> taskQueue, workers |-> workers,
     claimCount |-> claimCount, streamState |-> streamState]

\* A pool that resolves as soon as one worker has returned (Promise.race).
AnyReturned(ws) == \E w \in Workers : ws[w].pc = "returned"

AllReturned(ws) == \A w \in Workers : ws[w].pc = "returned"

\* What follows `await Promise.all(workers)` once every worker has returned.
AfterPool(kind) ==
    CASE kind = "bulk" -> [phase |-> "done", alert |-> alert]
      [] kind = "multi" ->
            [phase |-> "done",
             alert |-> <<"success", "Multi-file edit process completed.">>]
      [] kind = "project" -> [phase |-> "finalize", alert |-> alert]

\* Publish a pool state: the React job list, the queue, the workers, and the
\* handler's continuation when the pool has resolved.
SetPool(kind, st) ==
    /\ taskQueue' = st.queue
    /\ workers' = st.workers
    /\ claimCount' = st.claimCount
    /\ streamState' = st.streamState
    /\ IF kind = "project"
       THEN projectGenerationJobs' = st.jobs /\ UNCHANGED bulkEditJobs
       ELSE bulkEditJobs' = st.jobs /\ UNCHANGED projectGenerationJobs
    /\ IF AllReturned(st.workers)
       THEN phase' = AfterPool(kind).phase /\ alert' = AfterPool(kind).alert
       ELSE phase' = "pool" /\ UNCHANGED alert

\* A pool of a single worker.
SpawnOneWorker == <<1>>

\* Array(CONCURRENCY_LIMIT).fill(null).map(worker)
SpawnWorkers == [w \in Workers |-> w]

\* ------------------------------------------------------ launching a batch
\* A job list that misses the last selected target.
CreateBulkJobsButLast(selection) ==
    [i \in 1..(Len(selection) - 1) |->
        [id |-> selection[i], path |-> selection[i], status |-> "queued",
         content |-> <<>>, error |-> NoError]]

\* handleBulkAiSubmit: Array.from(selectedFilePaths).map(fullPath => job)
CreateBulkJobs(selection) ==
    [i \in 1..Len(selection) |->
        [id |-> selection[i], path |-> selection[i], status |-> "queued",
         content |-> <<>>, error |-> NoError]]

\* handleMultiFileEditSubmit: [...selectedFiles].map(fullPath => job)
CreateMultiJobs(selection) ==
    [i \in 1..Len(selection) |->
        [id |-> selection[i],
         repoFullName |-> SplitKey(selection[i]).repoFullName,
         path |-> SplitKey(selection[i]).path,
         status |-> "queued", content |-> <<>>, error |-> NoError]]

\* const taskQueue = [...initialJobs], no worker started yet.
FreshPool(ij) ==
    [jobs |-> ij, queue |-> [i \in 1..Len(ij) |-> i],
     workers |-> [w \in Workers |-> IdleWorker],
     claimCount |-> [i \in 1..Len(ij) |-> 0],
     streamState |-> [i \in 1..Len(ij) |-> "none"]]

StartPool(kind, ij) ==
    /\ initialJobs' = ij
    /\ commitLog' = [i \in 1..Len(ij) |-> <<>>]
    /\ threw' = [i \in 1..Len(ij) |-> FALSE]
    /\ conflicted' = {}
    /\ streamLog' = [i \in 1..Len(ij) |-> <<>>]
    /\ SetPool(kind, Drain(kind, ij, SpawnWorkers, FreshPool(ij)))

LaunchBulk ==
    /\ variant = "App" /\ handler = "idle"
    /\ Len(selectedFilePaths) # 0
    /\ handler' = "bulk"
    /\ StartPool("bulk", CreateBulkJobs(selectedFilePaths))
    /\ isBulkProgressModalOpen' = TRUE
    /\ UNCHANGED <<projVars, scope, apiKey, variant, selectedFilePaths, fileTree,
                   currentBranchByRepo, openFiles, refreshed, uiVars, remote, budgetVars>>

LaunchMulti ==
    /\ variant = "FileExplorerApp" /\ handler = "idle"
    /\ Len(selectedFilePaths) # 0
    /\ handler' = "multi"
    /\ StartPool("multi", CreateMultiJobs(selectedFilePaths))
    /\ selectedFilePaths' = <<>>
    /\ isBulkProgressModalOpen' = TRUE
    /\ UNCHANGED <<projVars, scope, apiKey, variant, fileTree, currentBranchByRepo, openFiles,
                   refreshed, uiVars, remote,
                   budgetVars>>

\* ------------------------------------------------- the steps of one job
ReadError == "Failed to fetch file content: 404"
StreamError == "AI request failed: quota exceeded"
CommitError == "Failed to commit file: 409"

Running(w, pc) == phase = "pool" /\ workers[w].pc = pc /\ hung # w
JobId(w) == initialJobs[workers[w].job].id

\* A worker that returns after its first job (`if` for `while`).
FinishAndStop(w, patch, stream) ==
    SetPool(handler,
            [PoolState EXCEPT !.jobs = UpdateJobs(@, JobId(w), patch),
                              !.workers[w] = ReturnedWorker,
                              !.streamState[workers[w].job] = stream])

\* The job of worker w ends with `patch` (its stream left in state `stream`);
\* its worker goes back to its loop.
Finish(w, patch, stream) ==
    SetPool(handler,
            Drain(handler, initialJobs, <<w>>,
                  [PoolState EXCEPT !.jobs = UpdateJobs(@, JobId(w), patch),
                                    !.workers[w] = IdleWorker,
                                    !.streamState[workers[w].job] = stream]))

\* A catch that marks the job failed and drops the message.
CatchPatchNoMessage(message) == [status |-> "failed", error |-> NoError]

\* catch (err) { set status 'failed', error: err.message }
CatchPatch(message) == [status |-> "failed", error |-> Err(message)]

Fail(w, message, stream) ==
    /\ faultsLeft > 0
    /\ faultsLeft' = faultsLeft - 1
    /\ threw' = [threw EXCEPT ![workers[w].job] = TRUE]
    /\ UNCHANGED <<conflicted, streamLog>>
    /\ Finish(w, CatchPatch(message), stream)

\* getAiClient: throw new Error("API_KEY is not available. ...") without a
\* key; generateStream rethrows it as `AI request failed: ${error.message}`.
KeyError == "API_KEY is not available. Please configure your environment."
KeyStreamError == "AI request failed: " \o KeyError

\* getFileContent resolves; generateBulkEdit / bulkEditFileWithAI is called:
\* the stream is requested or, without a key, the call throws at once.
ReadReturns(w) ==
    /\ Running(w, "read")
    /\ IF apiKey
       THEN /\ LET file == remote[JobId(w)] IN
               workers' = [workers EXCEPT ![w].pc = "stream",
                                          ![w].fileContent = file.content,
                                          ![w].sha = file.sha,
                                          ![w].newContent = <<>>]
            /\ streamState' = [streamState EXCEPT ![workers[w].job] = "open"]
            /\ UNCHANGED <<phase, alert, bulkEditJobs, projectGenerationJobs,
                           taskQueue, claimCount, threw>>
       ELSE /\ threw' = [threw EXCEPT ![workers[w].job] = TRUE]
            /\ Finish(w, CatchPatch(KeyStreamError), "failed")
    /\ UNCHANGED <<projVars, envVars, remote, handler, initialJobs, commitLog,
                   conflicted, streamLog, budgetVars>>

ReadFails(w) ==
    /\ Running(w, "read")
    /\ Fail(w, ReadError, streamState[workers[w].job])
    /\ UNCHANGED <<projVars, envVars, remote, handler, initialJobs, commitLog, chunksLeft, collisionsLeft>>

\* generateStream: if (text) onChunk(text);  handleChunk: newContent += chunk
HandleChunk(newContent, chunk) == newContent \o chunk

ChunkArrives(w, text) ==
    /\ Running(w, "stream")
    /\ chunksLeft > 0
    /\ chunksLeft' = chunksLeft - 1
    /\ streamLog' = [streamLog EXCEPT ![workers[w].job] =
                        Append(@, [text |-> text, called |-> text # <<>>])]
    /\ IF text # <<>>
       THEN LET c == HandleChunk(workers[w].newContent, text) IN
            /\ workers' = [workers EXCEPT ![w].newContent = c]
            /\ IF handler = "project"
               THEN /\ projectGenerationJobs' =
                          UpdateJobs(projectGenerationJobs, JobId(w), [content |-> c])
                    /\ UNCHANGED bulkEditJobs
               ELSE /\ bulkEditJobs' = UpdateJobs(bulkEditJobs, JobId(w), [content |-> c])
                    /\ UNCHANGED projectGenerationJobs
       ELSE UNCHANGED <<workers, bulkEditJobs, projectGenerationJobs>>
    /\ UNCHANGED <<projVars, envVars, remote, handler, phase, alert, initialJobs, taskQueue,
                   streamState, commitLog, claimCount, threw, conflicted, faultsLeft,
                   collisionsLeft>>

\* A stream whose error is swallowed: the commit is issued with what arrived.
StreamFailsSwallowed(w) ==
    /\ Running(w, "stream")
    /\ faultsLeft > 0
    /\ faultsLeft' = faultsLeft - 1
    /\ streamState' = [streamState EXCEPT ![workers[w].job] = "failed"]
    /\ workers' = [workers EXCEPT ![w].pc = "commit"]
    /\ commitLog' = [commitLog EXCEPT ![workers[w].job] = Append(@, workers[w].newContent)]
    /\ UNCHANGED <<projVars, envVars, remote, handler, phase, alert, initialJobs,
                   bulkEditJobs, projectGenerationJobs, taskQueue, claimCount, threw, conflicted, streamLog,
                   chunksLeft, collisionsLeft>>

StreamFails(w) ==
    /\ Running(w, "stream")
    /\ Fail(w, StreamError, "failed")
    /\ UNCHANGED <<projVars, envVars, remote, handler, initialJobs, commitLog, chunksLeft, collisionsLeft>>

\* FileExplorer.tsx: newContent.trim() === fileContent.content.trim()
\*                   || newContent.trim() === ''   (App.tsx has no such test)
SkipsCommit(kind, newContent, fileContent) ==
    /\ kind = "multi"
    /\ (Trim(newContent) = Trim(fileContent) \/ Trim(newContent) = <<>>)

\* The stream is exhausted: the commit is issued, or the job is skipped.
StreamEnds(w) ==
    /\ Running(w, "stream")
    /\ LET e == workers[w].job IN
       IF SkipsCommit(handler, workers[w].newContent, workers[w].fileContent)
       THEN /\ Finish(w, [status |-> "skipped"], "exhausted")
            /\ UNCHANGED commitLog
       ELSE /\ streamState' = [streamState EXCEPT ![e] = "exhausted"]
            /\ workers' = [workers EXCEPT ![w].pc = "commit"]
            /\ commitLog' = [commitLog EXCEPT ![e] = Append(@, workers[w].newContent)]
            /\ IF handler = "project"
               THEN projectGenerationJobs' =
                        UpdateJobs(projectGenerationJobs, JobId(w),
                                   [status |-> "committing"])
               ELSE UNCHANGED projectGenerationJobs
            /\ UNCHANGED <<bulkEditJobs, taskQueue, claimCount, phase, alert>>
    /\ UNCHANGED <<projVars, envVars, remote, handler, initialJobs, threw, conflicted, streamLog, budgetVars>>

IsOpen(key) ==
    \E i \in 1..Len(openFiles) :
        openFiles[i].repoFullName \o "::" \o openFiles[i].path = key

\* The key under which the host holds the file a job commits.
CommitKey(w) ==
    IF handler = "project"
    THEN "o/" \o NameString(newRepo.name) \o "::" \o initialJobs[workers[w].job].path
    ELSE JobId(w)

\* What another writer pushes to a file, and the host's answer to a write
\* that carries the sha of a version the file no longer has.
ExternalContent == <<"x">>
ConflictError == "Failed to commit file: 409 sha does not match"

\* Another writer updates a file that a bulk-edit job has read and has not
\* committed yet.
ExternalEdit(w) ==
    /\ handler \in {"bulk", "multi"}
    /\ phase = "pool" /\ workers[w].pc \in {"stream", "commit"}
    /\ faultsLeft > 0
    /\ faultsLeft' = faultsLeft - 1
    /\ remote' = [remote EXCEPT ![JobId(w)] =
                     [content |-> ExternalContent, sha |-> @.sha + 1]]
    /\ UNCHANGED <<envVars, poolVars, projVars, chunksLeft, collisionsLeft>>

\* sha: originalFile.sha no longer names the stored version of the file.
Stale(w) ==
    handler # "project" /\ remote[CommitKey(w)].sha # workers[w].sha

\* commitFile resolves: the host stores the content under a new sha.  A file
\* is created (no sha is passed) only where none exists yet.
CommitReturns(w) ==
    /\ Running(w, "commit")
    /\ handler = "project" => CommitKey(w) \notin DOMAIN remote
    /\ ~Stale(w)
    /\ remote' = [k \in DOMAIN remote \cup {CommitKey(w)} |->
                    IF k = CommitKey(w)
                    THEN [content |-> workers[w].newContent,
                          sha |-> IF k \in DOMAIN remote THEN remote[k].sha + 1 ELSE 1]
                    ELSE remote[k]]
    /\ IF handler = "multi" /\ IsOpen(JobId(w))
       THEN /\ bulkEditJobs' = UpdateJobs(bulkEditJobs, JobId(w), [status |-> "success"])
            /\ workers' = [workers EXCEPT ![w].pc = "refetch"]
            /\ UNCHANGED <<projectGenerationJobs, taskQueue, claimCount,
                           streamState, phase, alert>>
       ELSE Finish(w, [status |-> "success"], streamState[workers[w].job])
    /\ UNCHANGED <<projVars, envVars, handler, initialJobs, commitLog, threw, conflicted, streamLog, budgetVars>>

\* A job that answers a refused write by writing again without the sha.
CommitConflictOverwrites(w) ==
    /\ Running(w, "commit")
    /\ Stale(w)
    /\ conflicted' = conflicted \cup {workers[w].job}
    /\ commitLog' = [commitLog EXCEPT ![workers[w].job] = Append(@, workers[w].newContent)]
    /\ remote' = [remote EXCEPT ![JobId(w)] =
                     [content |-> workers[w].newContent, sha |-> @.sha + 1]]
    /\ Finish(w, [status |-> "success"], streamState[workers[w].job])
    /\ UNCHANGED <<projVars, envVars, handler, initialJobs, threw, streamLog,
                   budgetVars>>

\* The host rejects a write that carries a stale sha; processJob catches it.
CommitConflict(w) ==
    /\ Running(w, "commit")
    /\ Stale(w)
    /\ threw' = [threw EXCEPT ![workers[w].job] = TRUE]
    /\ conflicted' = conflicted \cup {workers[w].job}
    /\ Finish(w, CatchPatch(ConflictError), streamState[workers[w].job])
    /\ UNCHANGED <<projVars, envVars, remote, handler, initialJobs, commitLog,
                   streamLog, budgetVars>>

\* The host rejects the creation of a file that already exists.
CommitRejected(w) ==
    /\ Running(w, "commit")
    /\ handler = "project" /\ CommitKey(w) \in DOMAIN remote
    /\ threw' = [threw EXCEPT ![workers[w].job] = TRUE]
    /\ UNCHANGED <<conflicted, streamLog>>
    /\ Finish(w, CatchPatch(CommitError), streamState[workers[w].job])
    /\ UNCHANGED <<projVars, envVars, remote, handler, initialJobs, commitLog,
                   budgetVars>>

CommitFails(w) ==
    /\ Running(w, "commit")
    /\ Fail(w, CommitError, streamState[workers[w].job])
    /\ UNCHANGED <<projVars, envVars, remote, handler, initialJobs, commitLog, chunksLeft, collisionsLeft>>

\* FileExplorer.tsx: the committed file is open, so it is read again.
RefetchReturns(w) ==
    /\ Running(w, "refetch")
    /\ openFiles' = [i \in 1..Len(openFiles) |->
                        IF openFiles[i].repoFullName \o "::" \o openFiles[i].path = JobId(w)
                        THEN [openFiles[i] EXCEPT
                                !.content = remote[JobId(w)].content,
                                !.editedContent = remote[JobId(w)].content,
                                !.sha = remote[JobId(w)].sha]
                        ELSE openFiles[i]]
    /\ Finish(w, [status |-> "success"], streamState[workers[w].job])
    /\ UNCHANGED <<projVars, scope, apiKey, variant, selectedFilePaths, fileTree, currentBranchByRepo,
                   isBulkProgressModalOpen, refreshed, uiVars,
                   remote, handler, initialJobs, commitLog, threw, conflicted, streamLog, budgetVars>>

RefetchFails(w) ==
    /\ Running(w, "refetch")
    /\ Fail(w, ReadError, streamState[workers[w].job])
    /\ UNCHANGED <<projVars, envVars, remote, handler, initialJobs, commitLog, chunksLeft, collisionsLeft>>

\* ---------------------------------------------------- project generation
CollisionError == "Failed to create repository: 422"
CreateError == "Failed to create repository: 403"
PlanError == "AI failed to generate a valid project plan."

\* error instanceof Error && error.message.includes('422')
IsNameConflict(message) == message = CollisionError

\* `Failed to create repository '${repoName}' after ${maxAttempts} attempts...`
ExhaustedMessage(name) ==
    "Failed to create repository '" \o NameString(name) \o "' after "
        \o ToString(maxAttempts) \o " attempts. The name may be taken."

\* A catch that hides the progress view without reporting anything.
AbortProjectSilently(message) ==
    /\ UNCHANGED alert
    /\ isGeneratingProject' = FALSE
    /\ phase' = "failed"

\* catch (err) { showAlert('error', `Project generation failed: ${message}`);
\*               setIsGeneratingProject(false); }
AbortProject(message) ==
    /\ alert' = <<"error", "Project generation failed: " \o message>>
    /\ isGeneratingProject' = FALSE
    /\ phase' = "failed"

\* Loop tests that are off by one, or that ignore `created`.
RetryAgainInclusive(isCreated, n) == ~isCreated /\ n <= maxAttempts
RetryAgainRegardless(isCreated, n) == n < maxAttempts

\* while (!created && attempts < maxAttempts)
RetryAgain(isCreated, n) == ~isCreated /\ n < maxAttempts

\* handleGenerateProject up to its first await, the first createRepo call.
LaunchProject(name) ==
    /\ variant = "App" /\ handler = "idle"
    /\ handler' = "project"
    /\ isGeneratingProject' = TRUE
    /\ projectGenerationJobs' = <<>>
    /\ newRepo' = NullRepo
    /\ repoName' = name
    /\ repoToCreateName' = name
    /\ created' = FALSE
    /\ attempts' = 0
    /\ IF RetryAgain(FALSE, 0)
       THEN /\ phase' = "create"
            /\ createCalls' = createCalls + 1
            /\ lastCreateName' = name
            /\ UNCHANGED alert
       ELSE /\ AbortProject(ExhaustedMessage(name))
            /\ UNCHANGED <<createCalls, lastCreateName>>
    /\ UNCHANGED <<envVars, remote, initialJobs, bulkEditJobs, taskQueue, workers,
                   streamState, commitLog, claimCount, threw, conflicted, streamLog, plan, budgetVars>>

\* What createRepo resolves with: the repository created under `name`.
CreateRepoResult(name) == [name |-> name]

\* createRepo resolves: created = true, the loop test, and the plan is
\* requested with the repository returned.
CreateReturns ==
    /\ handler = "project" /\ phase = "create"
    /\ newRepo' = CreateRepoResult(repoToCreateName)
    /\ created' = TRUE
    /\ IF RetryAgain(TRUE, attempts)
       THEN /\ createCalls' = createCalls + 1
            /\ lastCreateName' = repoToCreateName
            /\ UNCHANGED <<phase, alert, isGeneratingProject>>
       ELSE /\ IF apiKey
               THEN /\ alert' = <<"success", "Repository '"
                                      \o NameString(repoToCreateName) \o "' created.">>
                    /\ phase' = "plan"
                    /\ UNCHANGED isGeneratingProject
               ELSE AbortProject(KeyError)
            /\ UNCHANGED <<createCalls, lastCreateName>>
    /\ UNCHANGED <<envVars, remote, handler, initialJobs, bulkEditJobs,
                   projectGenerationJobs, taskQueue, workers, streamState,
                   commitLog, claimCount, threw, conflicted, streamLog, repoName,
                   repoToCreateName, attempts, plan, budgetVars>>

\* createRepo rejects with a 422: a new candidate name, then the 1 s wait.
CreateCollides(suffix) ==
    /\ handler = "project" /\ phase = "create"
    /\ IsNameConflict(CollisionError)
    /\ collisionsLeft > 0
    /\ collisionsLeft' = collisionsLeft - 1
    /\ attempts' = attempts + 1
    /\ repoToCreateName' = CandidateName(repoName, suffix)
    /\ phase' = "backoff"
    /\ UNCHANGED <<envVars, remote, handler, alert, initialJobs, bulkEditJobs,
                   projectGenerationJobs, taskQueue, workers, streamState,
                   commitLog, claimCount, threw, conflicted, streamLog, repoName, created, newRepo,
                   createCalls, lastCreateName, plan, isGeneratingProject,
                   faultsLeft, chunksLeft>>

\* A loop that treats every createRepo error as a name collision.
CreateFailsRetried ==
    /\ handler = "project" /\ phase = "create"
    /\ ~IsNameConflict(CreateError)
    /\ attempts' = attempts + 1
    /\ phase' = "backoff"
    /\ UNCHANGED <<envVars, remote, handler, alert, initialJobs, bulkEditJobs,
                   projectGenerationJobs, taskQueue, workers, streamState,
                   commitLog, claimCount, threw, conflicted, streamLog, repoName,
                   repoToCreateName, created, newRepo, createCalls, lastCreateName,
                   plan, isGeneratingProject, budgetVars>>

\* createRepo rejects with another error: it is re-thrown.
CreateFails ==
    /\ handler = "project" /\ phase = "create"
    /\ ~IsNameConflict(CreateError)
    /\ AbortProject(CreateError)
    /\ UNCHANGED <<envVars, remote, handler, initialJobs, bulkEditJobs,
                   projectGenerationJobs, taskQueue, workers, streamState,
                   commitLog, claimCount, threw, conflicted, streamLog, repoName, repoToCreateName,
                   created, attempts, newRepo, createCalls, lastCreateName, plan,
                   budgetVars>>

\* The wait is over: the loop test, then the next createRepo call or, with
\* newRepo still null, the throw after the loop.
BackoffElapses ==
    /\ handler = "project" /\ phase = "backoff"
    /\ IF RetryAgain(created, attempts)
       THEN /\ phase' = "create"
            /\ createCalls' = createCalls + 1
            /\ lastCreateName' = repoToCreateName
            /\ UNCHANGED <<alert, isGeneratingProject>>
       ELSE /\ AbortProject(ExhaustedMessage(repoName))
            /\ UNCHANGED <<createCalls, lastCreateName>>
    /\ UNCHANGED <<envVars, remote, handler, initialJobs, bulkEditJobs,
                   projectGenerationJobs, taskQueue, workers, streamState,
                   commitLog, claimCount, threw, conflicted, streamLog, repoName, repoToCreateName,
                   created, attempts, newRepo, plan, budgetVars>>

\* ------------------------------------------------------------- the plan
PlanEntry(i) == [path |-> "src/f" \o ToString(i), description |-> "part"]
ReadmeEntry == [path |-> "README.md", description |-> "readme"]
GitignoreEntry == [path |-> " .gitignore", description |-> "ignore"]
NestedReadmeEntry == [path |-> "docs/README.md", description |-> "docs"]

DistinctPlan(n) == [i \in 1..n |-> PlanEntry(i)]
\* A plan whose last entry repeats the path of the one before it.
RepeatingPlan(n) == [i \in 1..n |-> IF i = n THEN PlanEntry(n - 1) ELSE PlanEntry(i)]

Plans(sc) ==
    {DistinctPlan(n) : n \in BatchSizes(sc)}
        \cup {RepeatingPlan(n) : n \in BatchSizes(sc) \ {0, 1}}
        \cup (IF sc = "small"
              THEN {<<ReadmeEntry>> \o DistinctPlan(n) : n \in 0..(MaxJobs - 1)}
                      \cup {<<GitignoreEntry, PlanEntry(1), NestedReadmeEntry>>}
              ELSE {})

\* file.path.toLowerCase().trim(), for the paths a plan can hold.
LowerTrim(path) ==
    CASE path = "README.md" -> "readme.md"
      [] path = " .gitignore" -> ".gitignore"
      [] path = "docs/README.md" -> "docs/readme.md"
      [] OTHER -> path

\* A filter that compares the paths as the plan spells them.
RECURSIVE FilesToGenerateAsSpelled(_)
FilesToGenerateAsSpelled(files) ==
    IF files = <<>> THEN <<>>
    ELSE IF Head(files).path # "readme.md" /\ Head(files).path # ".gitignore"
         THEN <<Head(files)>> \o FilesToGenerateAsSpelled(Tail(files))
         ELSE FilesToGenerateAsSpelled(Tail(files))

\* plan.files.filter(file => path !== 'readme.md' && path !== '.gitignore')
RECURSIVE FilesToGenerate(_)
FilesToGenerate(files) ==
    IF files = <<>> THEN <<>>
    ELSE IF LowerTrim(Head(files).path) # "readme.md"
            /\ LowerTrim(Head(files).path) # ".gitignore"
         THEN <<Head(files)>> \o FilesToGenerate(Tail(files))
         ELSE FilesToGenerate(Tail(files))

CreateProjectJobs(files) ==
    [i \in 1..Len(files) |->
        [id |-> files[i].path, path |-> files[i].path,
         description |-> files[i].description, status |-> "queued",
         content |-> <<>>, error |-> NoError]]

\* generateProjectPlan resolves: the jobs are created and the pool started.
PlanReturns(p) ==
    /\ handler = "project" /\ phase = "plan"
    /\ plan' = p
    /\ StartPool("project", CreateProjectJobs(FilesToGenerate(p)))
    /\ UNCHANGED <<envVars, remote, handler, repoName, repoToCreateName, created,
                   attempts, newRepo, createCalls, lastCreateName,
                   isGeneratingProject, budgetVars>>

PlanFails ==
    /\ handler = "project" /\ phase = "plan"
    /\ AbortProject(PlanError)
    /\ UNCHANGED <<envVars, remote, handler, initialJobs, bulkEditJobs,
                   projectGenerationJobs, taskQueue, workers, streamState,
                   commitLog, claimCount, threw, conflicted, streamLog, repoName, repoToCreateName,
                   created, attempts, newRepo, createCalls, lastCreateName, plan,
                   budgetVars>>

\* fetchRepoTree for a generated repository: the paths of its files.
PlanPaths ==
    {PlanEntry(i).path : i \in 1..MostJobs}
        \cup {ReadmeEntry.path, GitignoreEntry.path, NestedReadmeEntry.path}
FetchedTree(r) == {path \in PlanPaths : r \o "::" \o path \in DOMAIN remote}

\* addRepoToFileTree: fetchRepoTree resolves and the tree is stored, or it
\* throws and an error alert is shown; the success alert follows either way.
GeneratedAlert == <<"success", "Project generated successfully!">>

\* A refresh that fetches the tree and does not store it.
FinalizeReturnsKeepsTree ==
    /\ handler = "project" /\ phase = "finalize"
    /\ refreshed' = refreshed \cup {"o/" \o NameString(newRepo.name)}
    /\ alert' = GeneratedAlert
    /\ phase' = "done"
    /\ UNCHANGED <<scope, apiKey, variant, selectedFilePaths, fileTree,
                   currentBranchByRepo, openFiles, isBulkProgressModalOpen, uiVars,
                   remote, handler, initialJobs, bulkEditJobs,
                   projectGenerationJobs, taskQueue, workers, streamState,
                   commitLog, claimCount, threw, conflicted, streamLog, projVars,
                   budgetVars>>

FinalizeReturns ==
    /\ handler = "project" /\ phase = "finalize"
    /\ fileTree' = [r \in DOMAIN fileTree \cup {"o/" \o NameString(newRepo.name)} |->
                        IF r = "o/" \o NameString(newRepo.name)
                        THEN [default_branch |-> "main", tree |-> FetchedTree(r)]
                        ELSE fileTree[r]]
    /\ alert' = GeneratedAlert
    /\ phase' = "done"
    /\ refreshed' = refreshed \cup {"o/" \o NameString(newRepo.name)}
    /\ UNCHANGED <<scope, apiKey, variant, selectedFilePaths, currentBranchByRepo, openFiles,
                   isBulkProgressModalOpen, uiVars,
                   remote, handler, initialJobs, bulkEditJobs,
                   projectGenerationJobs, taskQueue, workers, streamState,
                   commitLog, claimCount, threw, conflicted, streamLog, projVars, budgetVars>>

FinalizeFails ==
    /\ handler = "project" /\ phase = "finalize"
    /\ alert' = GeneratedAlert
    /\ phase' = "done"
    /\ UNCHANGED <<envVars, remote, handler, initialJobs, bulkEditJobs,
                   projectGenerationJobs, taskQueue, workers, streamState,
                   commitLog, claimCount, threw, conflicted, streamLog, projVars, budgetVars>>

\* ------------------------------------------------------- the user's events
\* Everything but the selection, the tabs, the branches and the view flags.
batchVars == <<scope, apiKey, variant, fileTree, refreshed, hung, remote, poolVars,
               projVars, budgetVars>>

\* A user event; `call` is the handler call it makes when a property speaks
\* of that call.
TrackedEvent(call) == uiLeft > 0 /\ uiLeft' = uiLeft - 1 /\ lastCall' = call
UserEvent == TrackedEvent(NoCall)

\* The files the user clicks on, and the branches a repository offers.
ViewTargets == {Target(i) : i \in 1..(MaxViewJobs + 1)}
Branches == {"main", "dev"}

\* new Set(prev) with add(fileKey) / delete(fileKey); a Set keeps the order
\* in which its elements were added.
SetAdd(set, key) ==
    IF \E i \in 1..Len(set) : set[i] = key THEN set ELSE Append(set, key)
SetDelete(set, key) ==
    LET Kept(k) == k # key IN SelectSeq(set, Kept)

\* A selection change that rebuilds the job list of the running bulk edit.
HandleFileSelectionRebuilds(fileKey, isSelected) ==
    /\ UserEvent
    /\ selectedFilePaths' = IF isSelected THEN SetAdd(selectedFilePaths, fileKey)
                            ELSE SetDelete(selectedFilePaths, fileKey)
    /\ bulkEditJobs' = IF handler \in {"bulk", "multi"}
                       THEN CreateBulkJobs(selectedFilePaths') ELSE bulkEditJobs
    /\ UNCHANGED <<scope, apiKey, variant, fileTree, refreshed, hung, remote,
                   handler, phase, alert, initialJobs, projectGenerationJobs,
                   taskQueue, workers, streamState, commitLog, claimCount, threw,
                   conflicted, streamLog, projVars, budgetVars,
                   currentBranchByRepo, openFiles, isBulkProgressModalOpen,
                   activeFileKey, loads, reloadDue, callVars>>

\* handleFileSelection(fileKey, isSelected)
HandleFileSelection(fileKey, isSelected) ==
    /\ UserEvent
    /\ selectedFilePaths' = IF isSelected THEN SetAdd(selectedFilePaths, fileKey)
                            ELSE SetDelete(selectedFilePaths, fileKey)
    /\ UNCHANGED <<batchVars, currentBranchByRepo, openFiles, isBulkProgressModalOpen,
                   activeFileKey, loads, reloadDue, callVars>>

TabKey(f) == f.repoFullName \o "::" \o f.path

\* handleOpenFile(repoFullName, path, branch) up to its first await, called
\* by a render that saw the tabs `seen`: an open file becomes the active
\* tab; any other file is requested from the branch given, else from the
\* current branch of its repository, else from the default branch.  The
\* branches of the repository are taken to be fetched already.
OpenFileCall(seen, st, key, branch) ==
    IF \E i \in 1..Len(seen) : TabKey(seen[i]) = key
    THEN [st EXCEPT !.activeFileKey = key]
    ELSE LET repo == SplitKey(key).repoFullName
             effectiveBranch ==
                 IF branch # "" THEN branch
                 ELSE IF st.currentBranchByRepo[repo] # ""
                      THEN st.currentBranchByRepo[repo]
                      ELSE fileTree[repo].default_branch
         IN [st EXCEPT !.currentBranchByRepo[repo] = effectiveBranch,
                       !.loads = @ (+) SetToBag({[key |-> key, branch |-> effectiveBranch]})]

TabState ==
    [activeFileKey |-> activeFileKey, loads |-> loads,
     currentBranchByRepo |-> currentBranchByRepo]

SetTabState(st) ==
    /\ activeFileKey' = st.activeFileKey
    /\ loads' = st.loads
    /\ currentBranchByRepo' = st.currentBranchByRepo

\* The user clicks a file in the explorer: onFileSelect={handleOpenFile}.
HandleOpenFile(t) ==
    /\ UserEvent
    /\ SetTabState(OpenFileCall(openFiles, TabState, FileKey(t), ""))
    /\ UNCHANGED <<batchVars, selectedFilePaths, openFiles, isBulkProgressModalOpen,
                   reloadDue, callVars>>

\* getFileContent resolves: setOpenFiles(prev => [...prev, newFile]).
LoadReturns(l) ==
    /\ BagIn(l, loads)
    /\ loads' = loads (-) SetToBag({l})
    /\ openFiles' = Append(openFiles,
                        [repoFullName |-> SplitKey(l.key).repoFullName,
                         path |-> SplitKey(l.key).path,
                         content |-> remote[l.key].content,
                         editedContent |-> remote[l.key].content,
                         sha |-> remote[l.key].sha,
                         defaultBranch |-> fileTree[SplitKey(l.key).repoFullName].default_branch])
    /\ activeFileKey' = l.key
    /\ UNCHANGED <<batchVars, selectedFilePaths, currentBranchByRepo,
                   isBulkProgressModalOpen, reloadDue, lastCall, uiLeft, callVars>>

\* getFileContent rejects: showAlert('error', `Failed to load file: ${path}`).
LoadFails(l) ==
    /\ BagIn(l, loads)
    /\ faultsLeft > 0
    /\ faultsLeft' = faultsLeft - 1
    /\ loads' = loads (-) SetToBag({l})
    /\ alert' = <<"error", "Failed to load file: " \o SplitKey(l.key).path>>
    /\ reloadDue' = reloadDue \ {l.key}
    /\ UNCHANGED <<scope, apiKey, variant, fileTree, refreshed, hung, remote, handler,
                   phase, initialJobs, bulkEditJobs, projectGenerationJobs, taskQueue,
                   workers, streamState, commitLog, claimCount, threw, conflicted,
                   streamLog, projVars, chunksLeft, collisionsLeft, selectedFilePaths,
                   currentBranchByRepo, openFiles, isBulkProgressModalOpen,
                   activeFileKey, lastCall, uiLeft, callVars>>

\* filesToReload.forEach(file => handleOpenFile(file.repoFullName, file.path, newBranch))
RECURSIVE ReopenAll(_, _, _, _)
ReopenAll(seen, files, branch, st) ==
    IF files = <<>> THEN st
    ELSE ReopenAll(seen, Tail(files), branch,
                   OpenFileCall(seen, st, TabKey(Head(files)), branch))

\* handleBranchChange(newBranch): the tabs of the active file's repository
\* are closed and handleOpenFile is called for each of them; the
\* handleOpenFile it calls is the one of the render that still saw them open.
HandleBranchChange(newBranch) ==
    /\ UserEvent
    /\ \E i \in 1..Len(openFiles) : TabKey(openFiles[i]) = activeFileKey
    /\ LET repoToUpdate == SplitKey(activeFileKey).repoFullName
           InRepo(f) == f.repoFullName = repoToUpdate
           NotInRepo(f) == f.repoFullName # repoToUpdate
           filesToReload == SelectSeq(openFiles, InRepo)
           otherFiles == SelectSeq(openFiles, NotInRepo)
           closed == [TabState EXCEPT
                        !.currentBranchByRepo[repoToUpdate] = newBranch,
                        !.activeFileKey = IF otherFiles # <<>>
                                          THEN TabKey(otherFiles[1]) ELSE NoFile]
       IN /\ openFiles' = otherFiles
          /\ reloadDue' = {TabKey(filesToReload[i]) : i \in 1..Len(filesToReload)}
          /\ SetTabState(ReopenAll(openFiles, filesToReload, newBranch, closed))
    /\ UNCHANGED <<batchVars, selectedFilePaths, isBulkProgressModalOpen, callVars>>

\* A close button that also cancels the batch: the queue is emptied and the
\* workers are stopped.
CloseBulkProgressCancels ==
    /\ UserEvent
    /\ isBulkProgressModalOpen
    /\ isBulkProgressModalOpen' = FALSE
    /\ taskQueue' = <<>>
    /\ workers' = [w \in Workers |-> ReturnedWorker]
    /\ UNCHANGED <<scope, apiKey, variant, fileTree, refreshed, hung, remote, handler,
                   phase, alert, initialJobs, bulkEditJobs, projectGenerationJobs,
                   streamState, commitLog, claimCount, threw, conflicted,
                   streamLog, projVars, budgetVars, selectedFilePaths,
                   currentBranchByRepo, openFiles, activeFileKey, loads, reloadDue, callVars>>

\* BulkEditProgress onClose: setBulkProgressModalOpen(false)
CloseBulkProgress ==
    /\ UserEvent
    /\ isBulkProgressModalOpen
    /\ isBulkProgressModalOpen' = FALSE
    /\ UNCHANGED <<batchVars, selectedFilePaths, currentBranchByRepo, openFiles,
                   activeFileKey, loads, reloadDue, callVars>>

\* ProjectGenerationProgress onClose: setIsGeneratingProject(false)
CloseProjectProgress ==
    /\ UserEvent
    /\ isGeneratingProject
    /\ isGeneratingProject' = FALSE
    /\ UNCHANGED <<scope, apiKey, variant, fileTree, refreshed, hung, remote, poolVars,
                   budgetVars, repoName, repoToCreateName, created, attempts, newRepo,
                   createCalls, lastCreateName, plan, selectedFilePaths,
                   currentBranchByRepo, openFiles, isBulkProgressModalOpen,
                   activeFileKey, loads, reloadDue, callVars>>

\* ------------------------------------------------------------------ Next
Next ==
    \/ LaunchBulk
    \/ LaunchMulti
    \/ \E name \in RepoNamesOf(scope) : LaunchProject(name)
    \/ CreateReturns
    \/ \E suffix \in SuffixesOf(scope) : CreateCollides(suffix)
    \/ CreateFails
    \/ BackoffElapses
    \/ \E p \in Plans(scope) : PlanReturns(p)
    \/ PlanFails
    \/ FinalizeReturns
    \/ FinalizeFails
    \/ \E w \in Workers : ReadReturns(w)
    \/ \E w \in Workers : ReadFails(w)
    \/ \E w \in Workers, text \in FragmentsOf(scope) : ChunkArrives(w, text)
    \/ \E w \in Workers : StreamEnds(w)
    \/ \E w \in Workers : StreamFails(w)
    \/ \E w \in Workers : CommitReturns(w)
    \/ \E w \in Workers : CommitFails(w)
    \/ \E w \in Workers : CommitRejected(w)
    \/ \E w \in Workers : ExternalEdit(w)
    \/ \E w \in Workers : CommitConflict(w)
    \/ \E w \in Workers : RefetchReturns(w)
    \/ \E w \in Workers : RefetchFails(w)

Spec == Init /\ [][Next]_vars
SpecPool == InitPool /\ [][Next]_vars
SpecRetry == InitRetry /\ [][Next]_vars

\* A run with the user's events.
NextView ==
    \/ Next
    \/ \E t \in ViewTargets, isSelected \in BOOLEAN :
          HandleFileSelection(FileKey(t), isSelected)
    \/ \E t \in ViewTargets : HandleOpenFile(t)
    \/ \E l \in BagToSet(loads) : LoadReturns(l)
    \/ \E l \in BagToSet(loads) : LoadFails(l)
    \/ \E b \in Branches : HandleBranchChange(b)
    \/ CloseBulkProgress
    \/ CloseProjectProgress

SpecView == InitView /\ [][NextView]_vars

\* getFileContent answers every handleOpenFile call that awaits it.
SpecViewFair == SpecView /\ WF_vars(\E l \in BagToSet(loads) : LoadReturns(l))

\* A run in which the remote call one worker awaits never returns.  The call
\* is any of getFileContent, the generation stream and commitFile.
Hang(w) ==
    /\ phase = "pool" /\ hung = 0
    /\ workers[w].pc \in {"read", "stream", "commit"}
    /\ hung' = w
    /\ UNCHANGED <<scope, apiKey, variant, selectedFilePaths, fileTree,
                   currentBranchByRepo, openFiles, isBulkProgressModalOpen, refreshed,
                   activeFileKey, loads, reloadDue, lastCall, uiLeft, callVars, remote, poolVars,
                   projVars, budgetVars>>

\* Every other call of such a run is answered without an error, its streams
\* end without a fragment, and no other writer touches the files of the batch.
NextHang ==
    \/ LaunchBulk
    \/ LaunchMulti
    \/ \E name \in RepoNamesOf(scope) : LaunchProject(name)
    \/ CreateReturns
    \/ \E suffix \in SuffixesOf(scope) : CreateCollides(suffix)
    \/ BackoffElapses
    \/ \E p \in Plans(scope) : PlanReturns(p)
    \/ FinalizeReturns
    \/ \E w \in Workers : ReadReturns(w)
    \/ \E w \in Workers : StreamEnds(w)
    \/ \E w \in Workers : CommitReturns(w)
    \/ \E w \in Workers : CommitRejected(w)
    \/ \E w \in Workers : Hang(w)

\* The answer to the call worker w awaits.
Answer(w) ==
    \/ ReadReturns(w)
    \/ StreamEnds(w)
    \/ CommitReturns(w)
    \/ CommitRejected(w)

\* The remote calls of the workers, the hung one excepted, are answered: as
\* long as some worker awaits one, one of them returns.
SpecHang ==
    /\ InitHang /\ [][NextHang]_vars
    /\ WF_vars(\E w \in Workers : Answer(w))

\* --------------------------------------------------------- editor tabs
\* openFiles.findIndex(f => key(f) === keyToClose), 0 when there is none.
FindIndex(files, key) ==
    IF \E i \in 1..Len(files) : TabKey(files[i]) = key
    THEN CHOOSE i \in 1..Len(files) :
            /\ TabKey(files[i]) = key
            /\ \A j \in 1..(i - 1) : TabKey(files[j]) # key
    ELSE 0

Max(a, b) == IF a > b THEN a ELSE b

\* A close that makes the tab after the closed one the active tab.
HandleCloseFileActivatesNext(keyToClose) ==
    /\ TrackedEvent(<<"close", keyToClose>>)
    /\ LET index == FindIndex(openFiles, keyToClose)
           Kept(f) == TabKey(f) # keyToClose
           newOpenFiles == SelectSeq(openFiles, Kept)
       IN IF index = 0
          THEN UNCHANGED <<openFiles, activeFileKey>>
          ELSE /\ openFiles' = newOpenFiles
               /\ activeFileKey' =
                     IF activeFileKey # keyToClose THEN activeFileKey
                     ELSE IF newOpenFiles = <<>> THEN NoFile
                     ELSE TabKey(newOpenFiles[IF index <= Len(newOpenFiles)
                                              THEN index ELSE Len(newOpenFiles)])
    /\ UNCHANGED <<batchVars, selectedFilePaths, currentBranchByRepo,
                   isBulkProgressModalOpen, loads, reloadDue, callVars>>

\* handleCloseFile(keyToClose); indices count from 1 here.
HandleCloseFile(keyToClose) ==
    /\ TrackedEvent(<<"close", keyToClose>>)
    /\ LET index == FindIndex(openFiles, keyToClose)
           Kept(f) == TabKey(f) # keyToClose
           newOpenFiles == SelectSeq(openFiles, Kept)
       IN IF index = 0
          THEN UNCHANGED <<openFiles, activeFileKey>>
          ELSE /\ openFiles' = newOpenFiles
               /\ activeFileKey' =
                     IF activeFileKey # keyToClose THEN activeFileKey
                     ELSE IF newOpenFiles = <<>> THEN NoFile
                     ELSE TabKey(newOpenFiles[Max(0, (index - 1) - 1) + 1])
    /\ UNCHANGED <<batchVars, selectedFilePaths, currentBranchByRepo,
                   isBulkProgressModalOpen, loads, reloadDue, callVars>>

\* handleSetActiveFile(key): the user clicks one of the tabs shown.
HandleSetActiveFile(key) ==
    /\ UserEvent
    /\ \E i \in 1..Len(openFiles) : TabKey(openFiles[i]) = key
    /\ activeFileKey' = key
    /\ UNCHANGED <<batchVars, selectedFilePaths, currentBranchByRepo, openFiles,
                   isBulkProgressModalOpen, loads, reloadDue, callVars>>

\* What the user types into the editor.
EditedContent == <<"e">>

\* handleFileContentChange(key, newContent) for the file in the editor.
HandleFileContentChange(newContent) ==
    /\ UserEvent
    /\ \E i \in 1..Len(openFiles) : TabKey(openFiles[i]) = activeFileKey
    /\ openFiles' = [i \in 1..Len(openFiles) |->
                        IF TabKey(openFiles[i]) = activeFileKey
                        THEN [openFiles[i] EXCEPT !.editedContent = newContent]
                        ELSE openFiles[i]]
    /\ UNCHANGED <<batchVars, selectedFilePaths, currentBranchByRepo,
                   isBulkProgressModalOpen, activeFileKey, loads, reloadDue,
                   callVars>>
\* ----------------------------------------------------------- handleCommit
\* The tab the editor shows: openFiles.find(f => key(f) === activeFileKey).
HasActiveFile == \E i \in 1..Len(openFiles) : TabKey(openFiles[i]) = activeFileKey
ActiveFile == openFiles[FindIndex(openFiles, activeFileKey)]

CommitFailedAlert(message) == <<"error", "Failed to commit changes: " \o message>>
CommitDoneAlert == <<"success", "Commit successful!">>

\* handleCommit(commitMessage) up to its first await: commitFile is called
\* with the edited content and the sha of the active file.  Without an active
\* file or a current branch the handler returns at once.
HandleCommit ==
    /\ TrackedEvent(<<"commit", activeFileKey>>)
    /\ IF HasActiveFile
          /\ currentBranchByRepo[SplitKey(activeFileKey).repoFullName] # ""
       THEN commits' = commits (+) SetToBag({[key |-> activeFileKey,
                                               content |-> ActiveFile.editedContent,
                                               sha |-> ActiveFile.sha,
                                               pc |-> "commit"]})
       ELSE UNCHANGED commits
    /\ UNCHANGED <<agentVars, earlier>>
    /\ UNCHANGED <<batchVars, selectedFilePaths, currentBranchByRepo, openFiles,
                   isBulkProgressModalOpen, activeFileKey, loads, reloadDue>>

\* commitFile resolves: the host took the write, and the file is read again.
CommitAccepted(c) ==
    /\ BagIn(c, commits) /\ c.pc = "commit"
    /\ remote[c.key].sha = c.sha
    /\ remote' = [remote EXCEPT ![c.key] = [content |-> c.content, sha |-> @.sha + 1]]
    /\ commits' = (commits (-) SetToBag({c})) (+) SetToBag({[c EXCEPT !.pc = "reread"]})
    /\ UNCHANGED <<scope, apiKey, variant, selectedFilePaths, fileTree,
                   currentBranchByRepo, openFiles, isBulkProgressModalOpen, refreshed,
                   activeFileKey, loads, reloadDue, hung, lastCall, uiLeft, agentVars, earlier,
                   poolVars, projVars, budgetVars>>

\* commitFile rejects, the host refusing a stale sha: the catch shows the
\* error.
CommitRefused(c) ==
    /\ BagIn(c, commits) /\ c.pc = "commit"
    /\ remote[c.key].sha # c.sha
    /\ commits' = commits (-) SetToBag({c})
    /\ alert' = CommitFailedAlert(ConflictError)
    /\ UNCHANGED <<scope, apiKey, variant, selectedFilePaths, fileTree,
                   currentBranchByRepo, openFiles, isBulkProgressModalOpen, refreshed,
                   activeFileKey, loads, reloadDue, hung, lastCall, uiLeft, agentVars, earlier, remote,
                   handler, phase, initialJobs, bulkEditJobs, projectGenerationJobs,
                   taskQueue, workers, streamState, commitLog, claimCount, threw,
                   conflicted, streamLog, projVars, budgetVars>>

\* commitFile (pc commit) or the getFileContent after it (pc reread) rejects:
\* the same catch shows the error.
CommitCallFails(c) ==
    /\ BagIn(c, commits)
    /\ faultsLeft > 0
    /\ faultsLeft' = faultsLeft - 1
    /\ commits' = commits (-) SetToBag({c})
    /\ alert' = CommitFailedAlert(IF c.pc = "commit" THEN CommitError ELSE ReadError)
    /\ UNCHANGED <<scope, apiKey, variant, selectedFilePaths, fileTree,
                   currentBranchByRepo, openFiles, isBulkProgressModalOpen, refreshed,
                   activeFileKey, loads, reloadDue, hung, lastCall, uiLeft, agentVars, earlier, remote,
                   handler, phase, initialJobs, bulkEditJobs, projectGenerationJobs,
                   taskQueue, workers, streamState, commitLog, claimCount, threw,
                   conflicted, streamLog, projVars, chunksLeft, collisionsLeft>>

\* setOpenFiles(prev => prev.map(f => key(f) === activeFileKey ? {...f,
\* content, editedContent, sha of updatedFile} : f)) with the activeFileKey of
\* the render that called handleCommit.
Reread(files, key, file) ==
    [i \in 1..Len(files) |->
        IF TabKey(files[i]) = key
        THEN [files[i] EXCEPT !.content = file.content,
                              !.editedContent = file.content,
                              !.sha = file.sha]
        ELSE files[i]]

\* getFileContent resolves after the commit.
RereadReturns(c) ==
    /\ BagIn(c, commits) /\ c.pc = "reread"
    /\ openFiles' = Reread(openFiles, c.key, remote[c.key])
    /\ commits' = commits (-) SetToBag({c})
    /\ alert' = CommitDoneAlert
    /\ UNCHANGED <<scope, apiKey, variant, selectedFilePaths, fileTree,
                   currentBranchByRepo, isBulkProgressModalOpen, refreshed,
                   activeFileKey, loads, reloadDue, hung, lastCall, uiLeft, agentVars, earlier, remote,
                   handler, phase, initialJobs, bulkEditJobs, projectGenerationJobs,
                   taskQueue, workers, streamState, commitLog, claimCount, threw,
                   conflicted, streamLog, projVars, budgetVars>>

NextTabs ==
    \/ \E t \in ViewTargets : HandleOpenFile(t)
    \/ \E l \in BagToSet(loads) : LoadReturns(l)
    \/ \E l \in BagToSet(loads) : LoadFails(l)
    \/ \E b \in Branches : HandleBranchChange(b)
    \/ \E t \in ViewTargets : HandleCloseFile(FileKey(t))
    \/ \E t \in ViewTargets : HandleSetActiveFile(FileKey(t))
    \/ HandleFileContentChange(EditedContent)
    \/ HandleCommit
    \/ \E c \in BagToSet(commits) : CommitAccepted(c)
    \/ \E c \in BagToSet(commits) : CommitRefused(c)
    \/ \E c \in BagToSet(commits) : CommitCallFails(c)
    \/ \E c \in BagToSet(commits) : RereadReturns(c)

SpecTabs == InitTabs /\ [][NextTabs]_vars

\* ------------------------------------------------------------ the agent
\* codeAgentTools: the tools declared to the model.
AgentTools == {"readFile", "createFile", "updateFile"}

Call(name, path) == [name |-> name, args |-> [filePath |-> path]]

\* response.functionCalls of a model turn that asks for tools: a file that is
\* open, a tool that is not declared, a path that does not exist yet.
AgentTurns ==
    {<<Call("readFile", "f1")>>,
     <<Call("deleteFile", "f1"), Call("updateFile", "f1")>>,
     <<Call("createFile", "g1"), Call("readFile", "f3")>>}

AgentNewContent == <<"n">>      \* call.args.newContent, call.args.content

\* { functionResponse: { name: call.name, response: { error } } }
ErrorPart(call) == [name |-> call.name, response |-> "error"]
\* { functionResponse: { name: call.name, response: { result } } }
ResultPart(call) == [name |-> call.name, response |-> "result"]

\* addAgentLog(log): setAiAgentState(prev => ({...prev, logs: [...prev.logs, log]}))
AddAgentLog(state, type) == [state EXCEPT !.logs = Append(@, type)]

\* The first await of a declared tool.
FirstAwait(name) ==
    CASE name = "readFile" -> "read"
      [] name = "updateFile" -> "usha"
      [] name = "createFile" -> "ccommit"

\* A run: the calls the model asked for turn by turn (asked), the parts
\* passed to chat.sendMessage turn by turn (sent), the parts of the turn in
\* work (parts), and for each part whether its tool ran, threw or is unknown
\* (marks, outcomes).
CurrentCalls(r) == r.asked[Len(r.asked)]
CurrentCall(r) == CurrentCalls(r)[Len(r.parts) + 1]
CallKey(r) == r.repo \o "::" \o CurrentCall(r).args.filePath

\* The for loop over functionCalls from the call after the last answered
\* one, up to the next await: a tool that is not declared gets an error
\* response at once; after the last call the parts are sent to the model.
RECURSIVE ContinueTurn(_, _)
ContinueTurn(r, state) ==
    IF Len(r.parts) = Len(CurrentCalls(r))
    THEN [run |-> [r EXCEPT !.pc = "model", !.sent = Append(@, r.parts),
                            !.outcomes = Append(@, r.marks),
                            !.parts = <<>>, !.marks = <<>>],
          state |-> state]
    ELSE IF CurrentCall(r).name \notin AgentTools
         THEN ContinueTurn([r EXCEPT !.parts = Append(@, ErrorPart(CurrentCall(r))),
                                     !.marks = Append(@, "unknown")],
                           AddAgentLog(state, "error"))
         ELSE [run |-> [r EXCEPT !.pc = FirstAwait(CurrentCall(r).name)],
               state |-> AddAgentLog(state, "info")]

\* The tool of the current call ended with a result / with an error.
ToolResult(r, state) ==
    ContinueTurn([r EXCEPT !.parts = Append(@, ResultPart(CurrentCall(r))),
                           !.marks = Append(@, "ran")],
                 AddAgentLog(state, "tool-result"))
ToolError(r, state) ==
    ContinueTurn([r EXCEPT !.parts = Append(@, ErrorPart(CurrentCall(r))),
                           !.marks = Append(@, "threw")],
                 AddAgentLog(state, "error"))

InTool(r) == r.pc \in {"read", "usha", "ucommit", "urefetch", "ccommit"}

SetRun(n, next) ==
    /\ runs' = [runs EXCEPT ![n] = next.run]
    /\ aiAgentState' = next.state

\* onAiEdit: the agent state is reset and the modal opened.  The open modal
\* covers the editor, so the button is reached only while it is closed.
OpenAgentModal ==
    /\ UserEvent
    /\ ~isAiAgentModalOpen
    /\ aiAgentState' = [status |-> "idle", logs |-> <<>>]
    /\ isAiAgentModalOpen' = TRUE
    /\ UNCHANGED <<batchVars, selectedFilePaths, currentBranchByRepo, openFiles,
                   isBulkProgressModalOpen, activeFileKey, loads, reloadDue,
                   commits, runs, earlier>>

\* AiAgentModal onClose: setAiAgentModalOpen(false)
CloseAgentModal ==
    /\ UserEvent
    /\ isAiAgentModalOpen
    /\ isAiAgentModalOpen' = FALSE
    /\ UNCHANGED <<batchVars, selectedFilePaths, currentBranchByRepo, openFiles,
                   isBulkProgressModalOpen, activeFileKey, loads, reloadDue,
                   commits, aiAgentState, runs, earlier>>

\* The form of the modal, shown while the status is idle, is submitted:
\* handleAiAgentSubmit(instruction) and runAiAgent up to its first await.
\* createCodeAgentChat throws without an API key; the catch of
\* handleAiAgentSubmit logs it and sets the status error.
HandleAiAgentSubmit ==
    /\ UserEvent
    /\ isAiAgentModalOpen /\ aiAgentState.status = "idle"
    /\ IF HasActiveFile
       THEN LET started == [status |-> "running", logs |-> <<"info">>]
                r == [pc |-> "model", repo |-> ActiveFile.repoFullName,
                      seen |-> {TabKey(openFiles[i]) : i \in 1..Len(openFiles)},
                      asked |-> <<>>, sent |-> <<>>, outcomes |-> <<>>,
                      parts |-> <<>>, marks |-> <<>>, sha |-> 0]
            IN IF apiKey
               THEN /\ runs' = Append(runs, r)
                    /\ aiAgentState' = AddAgentLog(started, "info")
               ELSE /\ runs' = Append(runs, [r EXCEPT !.pc = "failed"])
                    /\ aiAgentState' = [AddAgentLog(started, "error")
                                            EXCEPT !.status = "error"]
       ELSE UNCHANGED <<runs, aiAgentState>>
    /\ UNCHANGED <<batchVars, selectedFilePaths, currentBranchByRepo, openFiles,
                   isBulkProgressModalOpen, activeFileKey, loads, reloadDue,
                   commits, isAiAgentModalOpen, earlier>>

agentFrame == <<scope, apiKey, variant, selectedFilePaths, currentBranchByRepo,
                isBulkProgressModalOpen, refreshed, activeFileKey, loads, reloadDue,
                hung, lastCall, uiLeft, commits, isAiAgentModalOpen, earlier, poolVars,
                projVars, chunksLeft, collisionsLeft>>

\* chat.sendMessage resolves with function calls.
ModelAsks(n, calls) ==
    /\ n \in 1..Len(runs) /\ runs[n].pc = "model"
    /\ Len(runs[n].asked) < MaxAgentTurns
    /\ SetRun(n, ContinueTurn([runs[n] EXCEPT !.asked = Append(@, calls)],
                              AddAgentLog(aiAgentState, "tool-call")))
    /\ UNCHANGED <<agentFrame, faultsLeft, remote, openFiles, fileTree>>

\* chat.sendMessage resolves without function calls: the status is set to
\* complete and the tree of the repository is fetched.
ModelFinishes(n) ==
    /\ n \in 1..Len(runs) /\ runs[n].pc = "model"
    /\ runs' = [runs EXCEPT ![n].pc = "refresh"]
    /\ aiAgentState' =
          AddAgentLog([AddAgentLog(aiAgentState, "model-response")
                          EXCEPT !.status = "complete"], "info")
    /\ UNCHANGED <<agentFrame, faultsLeft, remote, openFiles, fileTree>>

\* chat.sendMessage or fetchRepoTree rejects: runAiAgent rejects, and the
\* catch of handleAiAgentSubmit logs it and sets the status error.
RunFails(n) ==
    /\ n \in 1..Len(runs) /\ runs[n].pc \in {"model", "refresh"}
    /\ faultsLeft > 0
    /\ faultsLeft' = faultsLeft - 1
    /\ runs' = [runs EXCEPT ![n].pc = "failed"]
    /\ aiAgentState' = [AddAgentLog(aiAgentState, "error") EXCEPT !.status = "error"]
    /\ UNCHANGED <<agentFrame, remote, openFiles, fileTree>>

\* fetchRepoTree resolves: the tree of the repository is replaced.
AgentTree(repo) ==
    {path \in {t.path : t \in AllTargets} \cup {"g1"} :
        repo \o "::" \o path \in DOMAIN remote}

RefreshReturns(n) ==
    /\ n \in 1..Len(runs) /\ runs[n].pc = "refresh"
    /\ runs' = [runs EXCEPT ![n].pc = "done"]
    /\ fileTree' = [fileTree EXCEPT ![runs[n].repo].tree = AgentTree(runs[n].repo)]
    /\ UNCHANGED <<agentFrame, faultsLeft, remote, openFiles, aiAgentState>>

\* A tool failure that ends the run the way a failed model call does.
ToolFailsAborts(n) ==
    /\ n \in 1..Len(runs) /\ InTool(runs[n])
    /\ faultsLeft > 0
    /\ faultsLeft' = faultsLeft - 1
    /\ runs' = [runs EXCEPT ![n].pc = "failed"]
    /\ aiAgentState' = [AddAgentLog(aiAgentState, "error") EXCEPT !.status = "error"]
    /\ UNCHANGED <<agentFrame, remote, openFiles, fileTree>>

\* The call a tool awaits rejects: catch(e) { error = e.message }.
ToolFails(n) ==
    /\ n \in 1..Len(runs) /\ InTool(runs[n])
    /\ faultsLeft > 0
    /\ faultsLeft' = faultsLeft - 1
    /\ SetRun(n, ToolError(runs[n], aiAgentState))
    /\ UNCHANGED <<agentFrame, remote, openFiles, fileTree>>

\* The host refuses the write of a tool: an update with a stale sha, or the
\* creation of a file that exists.
ToolRefused(n) ==
    /\ n \in 1..Len(runs)
    /\ \/ runs[n].pc = "ucommit" /\ remote[CallKey(runs[n])].sha # runs[n].sha
       \/ runs[n].pc = "ccommit" /\ CallKey(runs[n]) \in DOMAIN remote
    /\ SetRun(n, ToolError(runs[n], aiAgentState))
    /\ UNCHANGED <<agentFrame, faultsLeft, remote, openFiles, fileTree>>

\* The call a tool awaits resolves.
ToolReturns(n) ==
    /\ n \in 1..Len(runs) /\ InTool(runs[n])
    /\ LET r == runs[n]
           key == CallKey(r)
       IN CASE r.pc = "read" ->
                 /\ key \in DOMAIN remote
                 /\ SetRun(n, ToolResult(r, aiAgentState))
                 /\ UNCHANGED <<remote, openFiles>>
            [] r.pc = "usha" ->
                 /\ key \in DOMAIN remote
                 /\ runs' = [runs EXCEPT ![n].pc = "ucommit",
                                         ![n].sha = remote[key].sha]
                 /\ UNCHANGED <<aiAgentState, remote, openFiles>>
            [] r.pc = "ucommit" ->
                 /\ remote[key].sha = r.sha
                 /\ remote' = [remote EXCEPT ![key] =
                                  [content |-> AgentNewContent, sha |-> @.sha + 1]]
                 /\ IF key \in r.seen
                    THEN /\ runs' = [runs EXCEPT ![n].pc = "urefetch"]
                         /\ UNCHANGED aiAgentState
                    ELSE SetRun(n, ToolResult(r, aiAgentState))
                 /\ UNCHANGED openFiles
            [] r.pc = "urefetch" ->
                 /\ openFiles' = Reread(openFiles, key, remote[key])
                 /\ SetRun(n, ToolResult(r, aiAgentState))
                 /\ UNCHANGED remote
            [] r.pc = "ccommit" ->
                 /\ key \notin DOMAIN remote
                 /\ remote' = [k \in DOMAIN remote \cup {key} |->
                                  IF k = key
                                  THEN [content |-> AgentNewContent, sha |-> 1]
                                  ELSE remote[k]]
                 /\ SetRun(n, ToolResult(r, aiAgentState))
                 /\ UNCHANGED openFiles
    /\ UNCHANGED <<agentFrame, faultsLeft, fileTree>>

NextAgent ==
    \/ OpenAgentModal
    \/ CloseAgentModal
    \/ HandleAiAgentSubmit
    \/ \E n \in 1..Len(runs), calls \in AgentTurns : ModelAsks(n, calls)
    \/ \E n \in 1..Len(runs) : ModelFinishes(n)
    \/ \E n \in 1..Len(runs) : RunFails(n)
    \/ \E n \in 1..Len(runs) : RefreshReturns(n)
    \/ \E n \in 1..Len(runs) : ToolReturns(n)
    \/ \E n \in 1..Len(runs) : ToolFails(n)
    \/ \E n \in 1..Len(runs) : ToolRefused(n)

SpecAgent == InitAgent /\ [][NextAgent]_vars

\* ------------------------------------------- a bulk edit launched again
\* handleBulkAiSubmit called while the pool of an earlier call is running
\* (the progress view was closed and the bulk edit modal submitted again):
\* the job list is replaced and a new pool started; the workers of the
\* earlier call go on with their own queue and their own processJob.
RelaunchBulk ==
    /\ UserEvent
    /\ variant = "App" /\ handler = "bulk" /\ phase = "pool"
    /\ ~isBulkProgressModalOpen
    /\ earlier = <<>>
    /\ Len(selectedFilePaths) # 0
    /\ earlier' = <<[ij |-> initialJobs, queue |-> taskQueue, workers |-> workers,
                     claimCount |-> claimCount, streamState |-> streamState]>>
    /\ StartPool("bulk", CreateBulkJobs(selectedFilePaths))
    /\ isBulkProgressModalOpen' = TRUE
    /\ UNCHANGED <<projVars, scope, apiKey, variant, selectedFilePaths, fileTree,
                   currentBranchByRepo, openFiles, refreshed, activeFileKey, loads,
                   reloadDue, hung, commits, agentVars, remote, handler, budgetVars>>

EarlierAt(w, pc) == Len(earlier) = 1 /\ earlier[1].workers[w].pc = pc
EarlierJobId(w) == earlier[1].ij[earlier[1].workers[w].job].id

\* setBulkEditJobs(prev => prev.map(j => j.id === jobId ? {...j, ...patch} : j))
\* issued by a worker of the earlier call, which then goes back to its loop.
EarlierFinish(w, patch) ==
    LET b == earlier[1]
        st == Drain("bulk", b.ij, <<w>>,
                    [jobs |-> UpdateJobs(bulkEditJobs, EarlierJobId(w), patch),
                     queue |-> b.queue,
                     workers |-> [b.workers EXCEPT ![w] = IdleWorker],
                     claimCount |-> b.claimCount,
                     streamState |-> b.streamState])
    IN /\ bulkEditJobs' = st.jobs
       /\ earlier' = <<[b EXCEPT !.queue = st.queue, !.workers = st.workers,
                                 !.claimCount = st.claimCount,
                                 !.streamState = st.streamState]>>

earlierEnv == <<scope, apiKey, variant, selectedFilePaths, fileTree,
                currentBranchByRepo, openFiles, isBulkProgressModalOpen, refreshed,
                activeFileKey, loads, reloadDue, hung, lastCall, uiLeft, commits,
                agentVars>>
earlierFrame == <<projVars, earlierEnv, handler, phase, alert, initialJobs,
                  projectGenerationJobs, taskQueue, workers, streamState, commitLog,
                  claimCount, threw, conflicted, streamLog, chunksLeft,
                  collisionsLeft>>

EarlierReadReturns(w) ==
    /\ EarlierAt(w, "read")
    /\ IF apiKey
       THEN /\ earlier' = <<[earlier[1] EXCEPT
                               !.workers[w].pc = "stream",
                               !.workers[w].fileContent = remote[EarlierJobId(w)].content,
                               !.workers[w].sha = remote[EarlierJobId(w)].sha,
                               !.workers[w].newContent = <<>>]>>
            /\ UNCHANGED bulkEditJobs
       ELSE EarlierFinish(w, CatchPatch(KeyStreamError))
    /\ UNCHANGED <<earlierFrame, remote, faultsLeft>>

EarlierChunkArrives(w, text) ==
    /\ EarlierAt(w, "stream")
    /\ chunksLeft > 0
    /\ chunksLeft' = chunksLeft - 1
    /\ text # <<>>
    /\ LET c == HandleChunk(earlier[1].workers[w].newContent, text) IN
       /\ earlier' = <<[earlier[1] EXCEPT !.workers[w].newContent = c]>>
       /\ bulkEditJobs' = UpdateJobs(bulkEditJobs, EarlierJobId(w), [content |-> c])
    /\ UNCHANGED <<projVars, earlierEnv, handler, phase, alert, initialJobs,
                   projectGenerationJobs, taskQueue, workers, streamState, commitLog,
                   claimCount, threw, conflicted, streamLog, collisionsLeft,
                   remote, faultsLeft>>

EarlierStreamEnds(w) ==
    /\ EarlierAt(w, "stream")
    /\ earlier' = <<[earlier[1] EXCEPT !.workers[w].pc = "commit"]>>
    /\ UNCHANGED <<earlierFrame, bulkEditJobs, remote, faultsLeft>>

EarlierCommitReturns(w) ==
    /\ EarlierAt(w, "commit")
    /\ remote[EarlierJobId(w)].sha = earlier[1].workers[w].sha
    /\ remote' = [remote EXCEPT ![EarlierJobId(w)] =
                     [content |-> earlier[1].workers[w].newContent,
                      sha |-> @.sha + 1]]
    /\ EarlierFinish(w, [status |-> "success"])
    /\ UNCHANGED <<earlierFrame, faultsLeft>>

EarlierCommitConflict(w) ==
    /\ EarlierAt(w, "commit")
    /\ remote[EarlierJobId(w)].sha # earlier[1].workers[w].sha
    /\ EarlierFinish(w, CatchPatch(ConflictError))
    /\ UNCHANGED <<earlierFrame, remote, faultsLeft>>

\* An await of processJob rejects in a worker of the earlier call.
EarlierFails(w) ==
    /\ Len(earlier) = 1 /\ earlier[1].workers[w].pc \in {"read", "stream", "commit"}
    /\ faultsLeft > 0
    /\ faultsLeft' = faultsLeft - 1
    /\ EarlierFinish(w, CatchPatch(
          CASE earlier[1].workers[w].pc = "read" -> ReadError
            [] earlier[1].workers[w].pc = "stream" -> StreamError
            [] earlier[1].workers[w].pc = "commit" -> CommitError))
    /\ UNCHANGED <<earlierFrame, remote>>

RelaunchTargets == {Target(i) : i \in 1..(MaxRelaunchJobs + 1)}

NextRelaunch ==
    \/ LaunchBulk
    \/ \E w \in Workers : ReadReturns(w)
    \/ \E w \in Workers, text \in FragmentsOf(scope) : ChunkArrives(w, text)
    \/ \E w \in Workers : StreamEnds(w)
    \/ \E w \in Workers : CommitReturns(w)
    \/ \E w \in Workers : CommitConflict(w)
    \/ \E w \in Workers : CommitFails(w)
    \/ CloseBulkProgress
    \/ \E t \in RelaunchTargets, isSelected \in BOOLEAN :
          HandleFileSelection(FileKey(t), isSelected)
    \/ RelaunchBulk
    \/ \E w \in Workers : EarlierReadReturns(w)
    \/ \E w \in Workers, text \in FragmentsOf(scope) : EarlierChunkArrives(w, text)
    \/ \E w \in Workers : EarlierStreamEnds(w)
    \/ \E w \in Workers : EarlierCommitReturns(w)
    \/ \E w \in Workers : EarlierCommitConflict(w)
    \/ \E w \in Workers : EarlierFails(w)

SpecRelaunch == InitRelaunch /\ [][NextRelaunch]_vars

\* ================================================================ claims
Terminal(status) == status \in {"success", "skipped", "failed"}
InFlight(status) == status \in {"processing", "generating", "committing"}

\* The job list the progress view of the running handler shows.
Jobs == JobsOf(handler)
Entries == 1..Len(initialJobs)

PoolStarted == handler \in {"bulk", "multi", "project"}
                 /\ phase \in {"pool", "finalize", "done"}
PoolResolved == PoolStarted /\ AllReturned(workers)

\* isComplete as App.tsx passes it to BulkEditProgress and to
\* ProjectGenerationProgress.
BulkIsComplete ==
    ~\E i \in 1..Len(bulkEditJobs) :
        bulkEditJobs[i].status \in {"queued", "processing"}
ProjectIsComplete ==
    ~\E i \in 1..Len(projectGenerationJobs) :
        projectGenerationJobs[i].status \in {"queued", "generating", "committing"}

\* C1: in a batch of handleBulkAiSubmit or handleGenerateProject, a job whose
\* processing threw ends failed, every job of the batch is terminal once the
\* pool has resolved, and no worker stops while the queue holds a job.
C1_FailureIsolated ==
    (handler \in {"bulk", "project"} /\ PoolStarted) =>
        /\ \A w \in Workers : workers[w].pc = "returned" => taskQueue = <<>>
        /\ \A w \in Workers : workers[w].pc # "idle"
        /\ AllReturned(workers) =>
              \A e \in Entries :
                  /\ Terminal(Jobs[e].status)
                  /\ threw[e] => Jobs[e].status = "failed"

\* C2: once the pool has resolved, as many jobs are terminal as were
\* submitted, and whenever isComplete holds no job is queued or in flight.
C2_AllJobsEndTerminal ==
    PoolStarted =>
        /\ Len(Jobs) = Len(initialJobs)
        /\ PoolResolved =>
              Cardinality({e \in Entries : Terminal(Jobs[e].status)})
                  = Len(initialJobs)
        /\ (IF handler = "project" THEN ProjectIsComplete ELSE BulkIsComplete) =>
              \A e \in Entries :
                  Jobs[e].status # "queued" /\ ~InFlight(Jobs[e].status)

C2_Witness ==
    /\ PoolResolved
    /\ Len(initialJobs) > CONCURRENCY_LIMIT
    /\ \E e \in Entries : Jobs[e].status = "failed"
    /\ \E e \in Entries : Jobs[e].status = "success"

\* C3: at most CONCURRENCY_LIMIT jobs of a batch are in an in-flight status.
C3_InFlightBounded ==
    (handler \in {"bulk", "project"} /\ PoolStarted) =>
        Cardinality({e \in Entries : InFlight(Jobs[e].status)}) <= CONCURRENCY_LIMIT

\* C4: every queue entry is shifted off the queue at most once, exactly once
\* by the time the pool resolves, and no two workers hold the same entry.
C4_ClaimedOnce ==
    PoolStarted =>
        /\ \A e \in Entries : claimCount[e] <= 1
        /\ \A e \in Entries :
              claimCount[e] = 0 <=> \E i \in 1..Len(taskQueue) : taskQueue[i] = e
        /\ \A v, w \in Workers :
              (v # w /\ workers[v].job # 0 /\ workers[w].job # 0)
                  => workers[v].job # workers[w].job
        /\ PoolResolved => \A e \in Entries : claimCount[e] = 1

C4_Witness ==
    /\ PoolStarted
    /\ Len(initialJobs) > CONCURRENCY_LIMIT
    /\ taskQueue = <<>>
    /\ \A w \in Workers : workers[w].job # 0

\* The order of the statuses of a job: queued, then the in-flight statuses in
\* the order processFile / processJob sets them, then the terminal ones.
Rank(status) ==
    CASE status = "queued" -> 0
      [] status \in {"processing", "generating"} -> 1
      [] status = "committing" -> 2
      [] OTHER -> 3

\* C5: in a batch of handleBulkAiSubmit or handleGenerateProject the status of
\* a job never moves backwards, and a terminal status never changes.
C5_StatusMovesForward ==
    [][(handler \in {"bulk", "project"} /\ PoolStarted /\ handler' = handler) =>
          \A e \in Entries :
              /\ Rank(Jobs'[e].status) >= Rank(Jobs[e].status)
              /\ Terminal(Jobs[e].status) => Jobs'[e].status = Jobs[e].status]_vars

\* One job per selected target: as many jobs as targets, the job of a target
\* carrying its key as id, queued, with no content and no error.
OneJobPerTarget(jobs, selection) ==
    /\ Len(jobs) = Len(selection)
    /\ \A i \in 1..Len(selection) :
          Cardinality({e \in 1..Len(jobs) : jobs[e].id = selection[i]}) = 1
    /\ \A e \in 1..Len(jobs) :
          /\ jobs[e].status = "queued"
          /\ jobs[e].content = <<>>
          /\ jobs[e].error = NoError

\* C6: launching a bulk edit over a non-empty selection creates exactly one
\* job per selected target, its id the target's key, queued, with empty
\* content and no error, and the progress list shows these jobs.
C6_OneJobPerTarget ==
    [][(handler = "idle" /\ handler' \in {"bulk", "multi"}) =>
          /\ selectedFilePaths # <<>>
          /\ OneJobPerTarget(initialJobs', selectedFilePaths)
          /\ Len(bulkEditJobs') = Len(initialJobs')
          /\ \A e \in 1..Len(initialJobs') : bulkEditJobs'[e].id = initialJobs'[e].id]_vars

C6_Witness ==
    /\ handler \in {"bulk", "multi"}
    /\ Len(initialJobs) = MaxJobs
    /\ \A e \in Entries : claimCount[e] = 1 /\ initialJobs[e].status = "queued"

\* C7: a bulk-edit job whose generated content is empty after trimming, or
\* equal after trimming to the content the file had, issues no commit and
\* ends skipped.
C7_UnchangedContentSkipped ==
    handler \in {"bulk", "multi"} =>
        \A e \in Entries :
            /\ commitLog[e] # <<>> =>
                  /\ Trim(commitLog[e][1]) # <<>>
                  /\ Trim(commitLog[e][1]) # Trim(InitialContent(e))
            /\ (streamState[e] = "exhausted" /\ commitLog[e] = <<>>) =>
                  bulkEditJobs[e].status = "skipped"

\* C8: a commit is issued for a job only once its stream has been consumed to
\* the end, at most once, and never for a job whose generation failed.
C8_CommitAfterStream ==
    PoolStarted =>
        \A e \in Entries :
            /\ Len(commitLog[e]) <= 1
            /\ commitLog[e] # <<>> => streamState[e] = "exhausted"
            /\ streamState[e] = "failed" =>
                  commitLog[e] = <<>> /\ threw[e]
            /\ \A w \in Workers :
                  (workers[w].job = e /\ workers[w].pc = "commit") =>
                      commitLog[e] = <<workers[w].newContent>>

C8_Witness ==
    /\ PoolResolved
    /\ \E e \in Entries : streamState[e] = "failed" /\ Jobs[e].status = "failed"
    /\ \E e \in Entries : commitLog[e] # <<>> /\ Jobs[e].status = "success"

\* C9: createRepo is called at most maxAttempts times; a name collision is
\* followed by the wait and then by a call with a candidate derived from the
\* requested name; after maxAttempts collisions the flow fails with the
\* exhausted-retries error.
C9_RetryState ==
    handler = "project" =>
        /\ createCalls <= maxAttempts
        /\ phase = "create" =>
              createCalls = attempts + 1 /\ lastCreateName = repoToCreateName
        /\ phase = "backoff" => createCalls = attempts /\ ~created
        /\ attempts >= 1 =>
              \E suffix \in Suffixes : repoToCreateName = CandidateName(repoName, suffix)
        /\ (attempts = maxAttempts /\ phase # "backoff") =>
              /\ phase = "failed" /\ ~created /\ ~isGeneratingProject
              /\ alert = <<"error",
                           "Project generation failed: " \o ExhaustedMessage(repoName)>>

C9_RetryStep ==
    /\ (phase = "create" /\ attempts' # attempts) =>
          attempts' = attempts + 1 /\ phase' = "backoff" /\ createCalls' = createCalls
    /\ (phase = "backoff" /\ attempts < maxAttempts) =>
          (phase' = "create" /\ createCalls' = createCalls + 1
             /\ lastCreateName' = repoToCreateName)

C9_BoundedRetry == []C9_RetryState /\ [][C9_RetryStep]_vars

C9_Witness ==
    /\ handler = "project" /\ phase = "failed"
    /\ attempts = maxAttempts /\ createCalls = maxAttempts

\* C10: when a createRepo call does not collide, the repository it returns,
\* created under the candidate name of that call, is the one the flow goes on
\* with; no further createRepo call is made and the plan is requested.
C10_CreatedState ==
    (handler = "project" /\ created) =>
        /\ newRepo = CreateRepoResult(lastCreateName)
        /\ lastCreateName = repoToCreateName
        /\ createCalls = attempts + 1
        /\ attempts < maxAttempts
        /\ phase \in {"plan", "pool", "finalize", "done", "failed"}

C10_CreatedStep ==
    /\ (phase = "create" /\ created') =>
          IF apiKey
          THEN phase' = "plan"
          ELSE phase' = "failed"
                 /\ alert' = <<"error", "Project generation failed: " \o KeyError>>
    /\ created => (created' /\ createCalls' = createCalls /\ newRepo' = newRepo)

C10_FirstFreeNameWins == []C10_CreatedState /\ [][C10_CreatedStep]_vars

C10_Witness ==
    /\ handler = "project" /\ created /\ phase = "plan"
    /\ attempts = maxAttempts - 1
    /\ newRepo.name = repoToCreateName

\* C11: when the repository-creation retries are exhausted, the error shown
\* names the last candidate name passed to createRepo.
C11_ErrorNamesLastCandidate ==
    (handler = "project" /\ phase = "failed" /\ attempts = maxAttempts) =>
        alert = <<"error",
                  "Project generation failed: " \o ExhaustedMessage(lastCreateName)>>

\* C12: when repository creation fails (retries exhausted or another error)
\* or the plan cannot be generated, an error alert is shown, the project job
\* list stays empty and no generation stream or commit is ever requested.
C12_AbortedBeforeJobs ==
    (handler = "project" /\ phase = "failed") =>
        /\ alert # <<>> /\ alert[1] = "error"
        /\ ~isGeneratingProject
        /\ projectGenerationJobs = <<>> /\ initialJobs = <<>> /\ taskQueue = <<>>
        /\ commitLog = <<>> /\ streamLog = <<>> /\ streamState = <<>>
        /\ \A w \in Workers : workers[w].pc = "idle"

C12_Witness ==
    /\ handler = "project" /\ phase = "failed"
    /\ created /\ apiKey
    /\ alert = <<"error", "Project generation failed: " \o PlanError>>

\* C13: a bulk-edit job whose write the host refuses because the sha it read
\* is stale ends failed with the conflict error, has issued one write call
\* and no more, and leaves the content the other writer stored in place.
C13_ConflictState ==
    handler \in {"bulk", "multi"} =>
        \A e \in conflicted :
            /\ bulkEditJobs[e].status = "failed"
            /\ bulkEditJobs[e].error = Err(ConflictError)
            /\ Len(commitLog[e]) = 1
            /\ remote[initialJobs[e].id].content = ExternalContent
            /\ \A w \in Workers : workers[w].job # e

C13_ConflictStep ==
    conflicted' # conflicted => (remote' = remote /\ commitLog' = commitLog)

C13_ConflictSurfaced == []C13_ConflictState /\ [][C13_ConflictStep]_vars

C13_Witness ==
    /\ handler = "bulk" /\ PoolResolved
    /\ \E e \in conflicted : bulkEditJobs[e].status = "failed"
    /\ \E e \in Entries : bulkEditJobs[e].status = "success"

\* C14: in every reachable state a job whose status is failed carries a
\* non-empty error message.
C14_FailedHasMessage ==
    PoolStarted =>
        \A e \in Entries :
            Jobs[e].status = "failed" =>
                /\ Jobs[e].error # NoError
                /\ Jobs[e].error[1] # ""

C14_Witness ==
    /\ PoolStarted
    /\ \E e \in Entries : Jobs[e].status = "failed" /\ Jobs[e].error = Err(StreamError)
    /\ \E e \in Entries : Jobs[e].status = "failed" /\ Jobs[e].error = Err(CommitError)

\* C15: in every reachable state of a batch of handleBulkAiSubmit or
\* handleGenerateProject a job whose status is not failed has no error.
C15_ErrorOnlyOnFailed ==
    (handler \in {"bulk", "project"} /\ PoolStarted) =>
        \A e \in Entries :
            Jobs[e].status # "failed" => Jobs[e].error = NoError

\* C16: the awaited worker pool resolves only when the queue is empty and
\* every worker has returned; in project generation the tree refresh and the
\* alert that the project was generated come only after that.
C16_ResolvedState ==
    /\ (PoolStarted /\ phase \in {"finalize", "done"}) =>
          /\ taskQueue = <<>>
          /\ \A w \in Workers : workers[w].pc = "returned"
          /\ \A e \in Entries : claimCount[e] = 1
    /\ (handler = "project" /\ alert = GeneratedAlert) => phase = "done"
    /\ (handler = "multi" /\ alert # <<>>) => phase = "done"

C16_ResolvedStep ==
    /\ (phase = "pool" /\ phase' # "pool") =>
          (taskQueue' = <<>> /\ \A w \in Workers : workers'[w].pc = "returned")
    /\ (handler = "project" /\ fileTree' # fileTree) =>
          (phase = "finalize" /\ \A w \in Workers : workers[w].pc = "returned")

C16_ResolvesWhenDrained == []C16_ResolvedState /\ [][C16_ResolvedStep]_vars

C16_Witness ==
    /\ handler = "project" /\ phase = "done" /\ alert = GeneratedAlert
    /\ Len(initialJobs) > CONCURRENCY_LIMIT
    /\ "o/" \o NameString(newRepo.name) \in DOMAIN fileTree


\* C17: jobs are claimed in the order of the submitted list: the claimed
\* entries are always the first ones and the queue holds the others in order.
\* The order in which jobs become terminal is not constrained.
C17_ClaimedInOrder ==
    PoolStarted =>
        LET claimed == Len(initialJobs) - Len(taskQueue) IN
        /\ taskQueue = [i \in 1..Len(taskQueue) |-> claimed + i]
        /\ \A e \in Entries : claimCount[e] = (IF e <= claimed THEN 1 ELSE 0)

C17_Witness ==
    /\ PoolStarted
    /\ \E i, j \in Entries :
          /\ i < j
          /\ Terminal(Jobs[j].status) /\ InFlight(Jobs[i].status)
          /\ \E w \in Workers : workers[w].job = i
    /\ taskQueue = <<>>

Min(a, b) == IF a <= b THEN a ELSE b

\* The workers started so far, and those that hold a job.
Spawned == {w \in Workers : workers[w].pc # "idle"}
Busy == {w \in Workers : workers[w].job # 0}

\* C18 as stated: for a batch of n jobs exactly min(CONCURRENCY_LIMIT, n)
\* workers are spawned.
C18_SpawnsMinWorkers ==
    PoolStarted =>
        Cardinality(Spawned) = Min(CONCURRENCY_LIMIT, Len(initialJobs))

\* C18 amended: for a batch of n jobs CONCURRENCY_LIMIT workers are spawned
\* whatever n is; at most min(CONCURRENCY_LIMIT, n) of them hold a job at a
\* time, the first min(CONCURRENCY_LIMIT, n) jobs are claimed when the pool
\* starts, and for n < CONCURRENCY_LIMIT the workers beyond the n-th return
\* at once without claiming a job.
C18_SpawnedState ==
    PoolStarted =>
        /\ Cardinality(Spawned) = CONCURRENCY_LIMIT
        /\ Cardinality(Busy) <= Min(CONCURRENCY_LIMIT, Len(initialJobs))

C18_SpawnStep ==
    (~PoolStarted /\ PoolStarted') =>
        /\ \A e \in 1..Min(CONCURRENCY_LIMIT, Len(initialJobs')) : claimCount'[e] = 1
        /\ \A w \in Workers : w > Len(initialJobs') => workers'[w].pc = "returned"

C18_SpawnsLimitWorkers == []C18_SpawnedState /\ [][C18_SpawnStep]_vars

C18_Witness ==
    /\ PoolStarted /\ phase = "pool"
    /\ Len(initialJobs) = 1
    /\ Cardinality(Busy) = 1
    /\ Cardinality({w \in Workers : workers[w].pc = "returned"}) = CONCURRENCY_LIMIT - 1

\* The concatenation of the fragments a stream delivered, in arrival order.
RECURSIVE Concat(_)
Concat(log) == IF log = <<>> THEN <<>> ELSE log[1].text \o Concat(Tail(log))

\* C19: the per-chunk callback is invoked once for every fragment the stream
\* delivers; after every fragment the streamed content the job shows is the
\* concatenation of the fragments that arrived so far, and the value handed
\* to the commit is the concatenation of all of them.
C19_ContentIsConcatenation ==
    (handler \in {"bulk", "project"} /\ PoolStarted) =>
        \A e \in Entries :
            /\ \A i \in 1..Len(streamLog[e]) : streamLog[e][i].called
            /\ Jobs[e].content = Concat(streamLog[e])
            /\ commitLog[e] # <<>> => commitLog[e][1] = Concat(streamLog[e])

\* C20: when the API key is missing, launching a bulk edit or a project
\* generation fails fast: no network call is issued (no read, no repository
\* creation, no commit, no generation) and the batch is not started, so no
\* job leaves queued.
C20_MissingKeyFailsFast ==
    (~apiKey /\ handler \in {"bulk", "project"}) =>
        /\ createCalls = 0
        /\ \A w \in DOMAIN workers : workers[w].pc \notin {"read", "stream", "commit"}
        /\ PoolStarted => \A e \in Entries : Jobs[e].status = "queued"

\* C21: empty input to an orchestration call is reported as an error and
\* creates no job: a bulk edit never runs on an empty job list, and a project
\* generation whose plan is empty ends in the error alert without starting
\* its pool.
C21_EmptyInputReported ==
    /\ (handler \in {"bulk", "multi"} /\ PoolStarted) => initialJobs # <<>>
    /\ (handler = "project" /\ plan = <<>>
            /\ phase \notin {"idle", "create", "backoff", "plan"}) =>
          /\ phase = "failed"
          /\ alert # <<>> /\ alert[1] = "error"

\* C27: in the job list of a bulk edit or of a project generation the ids
\* are pairwise distinct, and the id and the path of a job never change
\* once the job is created.
C27_IdsState ==
    PoolStarted =>
        \A i, j \in 1..Len(Jobs) : i # j => Jobs[i].id # Jobs[j].id

C27_IdsStep ==
    (PoolStarted /\ handler' = handler) =>
        /\ Len(Jobs') = Len(Jobs)
        /\ \A e \in 1..Len(Jobs) :
              Jobs'[e].id = Jobs[e].id /\ Jobs'[e].path = Jobs[e].path

C27_IdsDistinctAndStable == []C27_IdsState /\ [][C27_IdsStep]_vars

\* The queue entries a step claims, and the records it changes.
ClaimedInStep == {e \in Entries : claimCount'[e] > claimCount[e]}
ChangedInStep == {e \in Entries : Jobs'[e] # Jobs[e]}

\* C28: every update issued while a job is processed changes only the record
\* of that job: a step of the pool changes at most the record of the job one
\* worker held and the records of the jobs that worker claims next.
C28_OwnRecordOnly ==
    [][(handler \in {"bulk", "project"} /\ phase = "pool" /\ handler' = handler) =>
          \E w \in Workers :
              ChangedInStep \subseteq ({workers[w].job} \cup ClaimedInStep)]_vars

\* The requested name without its trailing '-<digits>' segment, if it has one.
Requested == IF Len(repoName) > 1 THEN SubSeq(repoName, 1, Len(repoName) - 1)
             ELSE repoName

IsRetryCandidate(name) ==
    \E n \in 100..999 : name = Requested \o <<n>>

\* C29: every retry candidate name is the requested name with a trailing
\* '-<digits>' suffix removed, followed by '-' and a number in 100..999: the
\* first createRepo call passes the requested name, and every name derived
\* or passed after a collision has that form.
C29_CandidateForm ==
    (handler = "project" /\ phase # "idle") =>
        /\ attempts = 0 => repoToCreateName = repoName
        /\ attempts > 0 => IsRetryCandidate(repoToCreateName)
        /\ lastCreateName = repoName \/ IsRetryCandidate(lastCreateName)

C29_Witness ==
    /\ handler = "project" /\ phase = "create"
    /\ repoName = <<"demo", 12>>
    /\ attempts > 1
    /\ lastCreateName = <<"demo", 999>>
    /\ NameString(lastCreateName) = "demo-999"

\* C30: a repository-creation error that is not a name collision is never
\* retried: project generation ends at once with that error in the alert, no
\* candidate is derived, no wait is started, and no createRepo call follows
\* the calls made so far; the wait before a retry is entered only when the
\* host answered with a name collision.
C30_AbortedState ==
    (handler = "project" /\ phase = "failed") =>
        /\ createCalls <= attempts + 1
        /\ alert[1] = "error"

C30_AbortStep ==
    /\ (phase = "create" /\ phase' \notin {"create", "plan"} /\ attempts' = attempts
            /\ ~created') =>
          /\ phase' = "failed"
          /\ alert' = <<"error", "Project generation failed: " \o CreateError>>
          /\ isGeneratingProject' = FALSE
          /\ createCalls' = createCalls
          /\ repoToCreateName' = repoToCreateName
    /\ (phase = "create" /\ phase' = "backoff") =>
          (attempts' = attempts + 1 /\ collisionsLeft' = collisionsLeft - 1)
    /\ phase = "failed" => (phase' = "failed" /\ createCalls' = createCalls)

C30_OtherErrorsAbort == []C30_AbortedState /\ [][C30_AbortStep]_vars

C30_Witness ==
    /\ handler = "project" /\ phase = "failed"
    /\ alert = <<"error", "Project generation failed: " \o CreateError>>
    /\ attempts = 2 /\ createCalls = 3

\* The ids of a job list, in order.
Ids(jobs) == [e \in 1..Len(jobs) |-> jobs[e].id]

\* C22: the jobs of a batch are fixed at launch: the progress list keeps the
\* ids, the count and the order of the jobs created at launch, only files of
\* these jobs are written, and a change of the selection made after launch
\* changes neither the job list nor the queue, the workers or the host.
C22_SnapshotState ==
    (PoolStarted /\ handler \in {"bulk", "multi"}) =>
        /\ Ids(Jobs) = Ids(initialJobs)
        /\ \A w \in Workers : workers[w].job \in 0..Len(initialJobs)
        /\ \A k \in DOMAIN remote :
              remote[k].sha # 1 => \E e \in Entries : initialJobs[e].id = k

C22_SnapshotStep ==
    (PoolStarted /\ handler' = handler) =>
        /\ initialJobs' = initialJobs
        /\ selectedFilePaths' # selectedFilePaths =>
              UNCHANGED <<bulkEditJobs, projectGenerationJobs, taskQueue, workers,
                          claimCount, commitLog, remote, phase>>

C22_JobsFixedAtLaunch == []C22_SnapshotState /\ [][C22_SnapshotStep]_vars

C22_Witness ==
    /\ handler = "bulk" /\ phase = "done"
    /\ Len(initialJobs) = 2
    /\ selectedFilePaths = <<initialJobs[2].id, FileKey(Target(3))>>
    /\ \A e \in Entries : Jobs[e].status = "success"

ViewKeys == {FileKey(t) : t \in ViewTargets}

\* The tabs of the repositories other than that of the active file.
OtherTabs(files) ==
    LET Other(f) == f.repoFullName # SplitKey(activeFileKey).repoFullName
    IN SelectSeq(files, Other)

\* C24: after the branch of a repository is switched, every file of that
\* repository that was open is eventually open again (or its load has
\* failed), and the switch leaves the tabs of the other repositories as they
\* were.
C24_ReloadedAfterSwitch ==
    /\ \A k \in ViewKeys : (k \in reloadDue) ~> (IsOpen(k) \/ k \notin reloadDue)
    /\ [][reloadDue' \ reloadDue # {} => openFiles' = OtherTabs(openFiles)]_vars

\* The progress view of the running handler is shown.
ProgressShown ==
    IF handler = "project" THEN isGeneratingProject ELSE isBulkProgressModalOpen

\* C26: closing the progress view of a bulk edit or of a project generation
\* while jobs are in flight changes the view's flag only: the job list, the
\* queue, the workers and the host are as before; the batch goes on with the
\* view closed, and whenever its pool has resolved every job is terminal.
C26_DismissedState ==
    PoolResolved => \A e \in Entries : Terminal(Jobs[e].status)

C26_DismissStep ==
    (phase = "pool" /\ ProgressShown /\ ~ProgressShown') =>
        UNCHANGED <<handler, phase, alert, initialJobs, bulkEditJobs,
                    projectGenerationJobs, taskQueue, workers, streamState,
                    commitLog, claimCount, threw, remote, selectedFilePaths,
                    openFiles, fileTree>>

NewRepoName == "o/" \o NameString(newRepo.name)
AffectedRepos ==
    IF handler = "project"
    THEN {NewRepoName}
    ELSE {SplitKey(Jobs[e].id).repoFullName :
              e \in {i \in Entries : Jobs[i].status = "success"}}

C25_TreeState ==
    /\ (handler # "project" \/ phase # "done") =>
          /\ refreshed = {}
          /\ DOMAIN fileTree = Repos
          /\ \A r \in Repos : fileTree[r].tree = InitialTree(r)
    /\ (handler = "project" /\ phase = "done") =>
          /\ refreshed \subseteq {NewRepoName}
          /\ NewRepoName \in refreshed =>
                /\ NewRepoName \in DOMAIN fileTree
                /\ fileTree[NewRepoName].tree = FetchedTree(NewRepoName)
                /\ \A e \in Entries :
                      commitLog[e] # <<>> /\ ~threw[e]
                          => initialJobs[e].path \in fileTree[NewRepoName].tree
          /\ NewRepoName \notin refreshed => DOMAIN fileTree = Repos

C25_TreeStep ==
    (fileTree' # fileTree \/ refreshed' # refreshed) =>
        /\ handler = "project" /\ phase = "finalize" /\ phase' = "done"
        /\ AllReturned(workers)
        /\ \A r \in DOMAIN fileTree : fileTree'[r] = fileTree[r]

Ended(e) == e \in DOMAIN Jobs /\ Terminal(Jobs[e].status)

\* The job whose remote call never returns.
StalledJob == IF hung = 0 THEN 0 ELSE workers[hung].job

\* Every job of the batch but the stalled one shows a terminal status.
OthersEnded == \A e \in Entries : e # StalledJob => Ended(e)

\* C23: when the remote call of one job never returns and the calls of the
\* other workers are answered, only the worker that awaits it is stalled:
\* every other job of the batch eventually reaches a terminal status.
C23_HangStallsOneWorker == (hung # 0) ~> OthersEnded

\* ---------------------------------------------------------------- C31
\* The project flow has not produced its jobs yet or some job is not ended.
ProjectFlowRunning ==
    /\ handler = "project" /\ isGeneratingProject
    /\ \/ phase \in {"create", "backoff", "plan"}
       \/ \E i \in 1..Len(projectGenerationJobs) :
             ~Terminal(projectGenerationJobs[i].status)

\* C31: while project generation runs (repository not yet created, plan not
\* yet produced, or some job not yet terminal) the isComplete value given to
\* the progress view is false; it is true only when the job list is not
\* empty and every job is terminal.
C31_CompleteOnlyWhenDone ==
    /\ ProjectFlowRunning => ~ProjectIsComplete
    /\ (handler = "project" /\ isGeneratingProject /\ ProjectIsComplete) =>
          /\ projectGenerationJobs # <<>>
          /\ \A i \in 1..Len(projectGenerationJobs) :
                Terminal(projectGenerationJobs[i].status)

\* ---------------------------------------------------------------- C33
\* C33: in every reachable state activeFileKey is null or the key
\* (repoFullName::path) of an entry of openFiles, whatever open-file,
\* close-file, set-active and branch-change operations came before.
C33_ActiveTabIsOpen ==
    \/ activeFileKey = NoFile
    \/ \E i \in 1..Len(openFiles) : TabKey(openFiles[i]) = activeFileKey

\* ---------------------------------------------------------------- C34
\* C34: openFiles never holds two entries with the same repoFullName::path
\* key, also when handleOpenFile is called again for a file whose earlier
\* call still awaits its fetch.
C34_NoDuplicateTabs ==
    \A i, j \in 1..Len(openFiles) :
        TabKey(openFiles[i]) = TabKey(openFiles[j]) => i = j

\* ---------------------------------------------------------------- C39
\* The step is a call handleCloseFile(lastCall'[2]).
CloseStep ==
    uiLeft' = uiLeft - 1 /\ lastCall' # NoCall /\ lastCall'[1] = "close"

\* C39: handleCloseFile removes exactly the named file from openFiles; if
\* that file was the active one, at index i, the file at index max(0, i - 1)
\* of the remaining list becomes active, or activeFileKey becomes null when
\* none remains; closing a file that is not active leaves activeFileKey as it
\* is, and closing a key that is not open changes nothing.
C39_CloseStep ==
    CloseStep =>
        LET key == lastCall'[2]
            first == {i \in 1..Len(openFiles) :
                         /\ TabKey(openFiles[i]) = key
                         /\ \A j \in 1..(i - 1) : TabKey(openFiles[j]) # key}
            Other(f) == TabKey(f) # key
            remaining == SelectSeq(openFiles, Other)
        IN /\ openFiles' = remaining
           /\ first = {} => openFiles' = openFiles /\ activeFileKey' = activeFileKey
           /\ activeFileKey # key => activeFileKey' = activeFileKey
           /\ (activeFileKey = key /\ first # {} /\ remaining = <<>>) =>
                 activeFileKey' = NoFile
           /\ (activeFileKey = key /\ remaining # <<>>) =>
                 \A i \in first :
                     activeFileKey' = TabKey(remaining[IF i > 2 THEN i - 1 ELSE 1])
           /\ UNCHANGED <<loads, commits, currentBranchByRepo, selectedFilePaths, remote>>

C39_CloseRemovesNamedFile == [][C39_CloseStep]_vars

\* The first of three tabs, the active one, was closed by the first event:
\* the tab that followed it is active.
C39_Witness ==
    /\ lastCall = <<"close", FileKey(Target(1))>>
    /\ uiLeft = MaxTabEvents - 1
    /\ Len(openFiles) = 2
    /\ TabKey(openFiles[1]) = FileKey(Target(2))
    /\ TabKey(openFiles[2]) = FileKey(Target(3))
    /\ activeFileKey = FileKey(Target(2))

\* ---------------------------------------------------------------- C38
\* The handleCommit call c ends in this step.
CommitCallEnds(c) == BagIn(c, commits) /\ commits' = commits (-) SetToBag({c})

\* C38: if the commit issued by handleCommit fails, content, editedContent
\* and sha of the committed file are left as they are and an error alert is
\* shown; if it succeeds, the three are replaced by the values read again
\* from the repository, and no other open file is changed.
C38_CommitStep ==
    \A c \in BagToSet(commits) :
        /\ (c.pc = "commit" /\ CommitCallEnds(c)) =>
              openFiles' = openFiles /\ alert'[1] = "error"
        /\ (c.pc = "reread" /\ CommitCallEnds(c)) =>
              /\ Len(openFiles') = Len(openFiles)
              /\ \A i \in 1..Len(openFiles) :
                    IF TabKey(openFiles[i]) = c.key
                    THEN /\ openFiles'[i].content = remote[c.key].content
                         /\ openFiles'[i].editedContent = remote[c.key].content
                         /\ openFiles'[i].sha = remote[c.key].sha
                         /\ TabKey(openFiles'[i]) = c.key
                    ELSE openFiles'[i] = openFiles[i]

C38_CommitUpdatesActiveFile == [][C38_CommitStep]_vars

\* C36: at most one agent run is executing at any time, whatever the
\* sequence of submits, closes and reopenings of the agent modal; and while
\* the agent status is idle or complete no run is executing.  A run counts as
\* executing from its start until its loop has ended (the refresh of the
\* tree after the status complete is not counted).
InAgentLoop(r) == r.pc \notin {"refresh", "done", "failed"}

C36_OneRunAtATime ==
    /\ Cardinality({n \in 1..Len(runs) : InAgentLoop(runs[n])}) <= 1
    /\ aiAgentState.status \in {"idle", "complete"}
          => \A n \in 1..Len(runs) : ~InAgentLoop(runs[n])

\* C35: in an agent run every function call the model asked for gets
\* exactly one function response, in the order of the request; a tool that
\* throws or is not known gets an error response and an error log entry, and
\* the run goes on with the remaining calls and the next model turn.
Answers(calls, parts, marks) ==
    /\ Len(parts) <= Len(calls) /\ Len(marks) = Len(parts)
    /\ \A i \in 1..Len(parts) :
          /\ parts[i].name = calls[i].name
          /\ calls[i].name \notin AgentTools => marks[i] = "unknown"
          /\ parts[i].response = "error" <=> marks[i] \in {"unknown", "threw"}

AnsweredInOrder(r) ==
    /\ Len(r.outcomes) = Len(r.sent)
    /\ \A t \in 1..Len(r.sent) :
          /\ Len(r.sent[t]) = Len(r.asked[t])
          /\ Answers(r.asked[t], r.sent[t], r.outcomes[t])
    /\ IF r.pc \in {"read", "usha", "ucommit", "urefetch", "ccommit"}
       THEN /\ Len(r.sent) = Len(r.asked) - 1
            /\ Len(r.parts) < Len(r.asked[Len(r.asked)])
            /\ Answers(r.asked[Len(r.asked)], r.parts, r.marks)
       ELSE Len(r.sent) = Len(r.asked) /\ r.parts = <<>>

ErrorCount(s) == Cardinality({i \in 1..Len(s) : s[i] = "error"})
ErrorParts(r) ==
    LET all == [t \in 1..Len(r.sent) + 1 |->
                   IF t <= Len(r.sent) THEN r.sent[t] ELSE r.parts]
        Sum[t \in 0..Len(all)] ==
            IF t = 0 THEN 0
            ELSE Sum[t - 1] + ErrorCount([i \in 1..Len(all[t]) |-> all[t][i].response])
    IN Sum[Len(all)]

C35_ErrorLogged ==
    \A n \in 1..Len(runs) :
        ErrorParts(runs'[n]) > ErrorParts(runs[n])
           => ErrorCount(aiAgentState'.logs) - ErrorCount(aiAgentState.logs)
                 >= ErrorParts(runs'[n]) - ErrorParts(runs[n])

C35_EveryCallAnswered ==
    /\ [](\A n \in 1..Len(runs) : AnsweredInOrder(runs[n]))
    /\ [][C35_ErrorLogged]_vars

\* A run that met an unknown tool and a tool that threw in one turn and went
\* on to its end.
C35_Witness ==
    \E n \in 1..Len(runs) :
        /\ runs[n].pc = "done"
        /\ runs[n].outcomes = << <<"unknown", "threw">> >>
        /\ Len(runs[n].sent[1]) = 2

\* C37: project generation creates no job for a plan entry whose path,
\* trimmed and lower-cased, is 'readme.md' or '.gitignore', and exactly one
\* job, in the order of the plan, for every other entry.
AutoGenerated(entry) == LowerTrim(entry.path) \in {"readme.md", ".gitignore"}
PathsOf(s) == [i \in 1..Len(s) |-> s[i].path]

C37_JobsStep ==
    (handler = "project" /\ phase = "plan" /\ phase' \notin {"plan", "failed"})
        => LET wanted == SelectSeq(plan', LAMBDA e : ~AutoGenerated(e))
           IN /\ PathsOf(projectGenerationJobs') = PathsOf(wanted)
              /\ [i \in 1..Len(wanted) |-> projectGenerationJobs'[i].id] = PathsOf(wanted)
              /\ \A i \in 1..Len(wanted) :
                    projectGenerationJobs'[i].description = wanted[i].description

C37_AutoGeneratedFilesSkipped == [][C37_JobsStep]_vars

\* A plan with ' .gitignore' and a README.md in a folder: two jobs.
C37_Witness ==
    /\ plan = <<GitignoreEntry, PlanEntry(1), NestedReadmeEntry>>
    /\ PathsOf(projectGenerationJobs) = <<"src/f1", "docs/README.md">>

\* C32: when a second bulk edit is launched while an earlier one is still in
\* flight, no state update issued by a worker of the earlier batch changes
\* the status, the content or the error of a job of the later batch's list.
C32_EarlierStep ==
    (Len(earlier) = 1 /\ earlier' # earlier)
        => /\ Len(bulkEditJobs') = Len(bulkEditJobs)
           /\ \A i \in 1..Len(bulkEditJobs) :
                 /\ bulkEditJobs'[i].status = bulkEditJobs[i].status
                 /\ bulkEditJobs'[i].content = bulkEditJobs[i].content
                 /\ bulkEditJobs'[i].error = bulkEditJobs[i].error

C32_EarlierBatchLeavesLaterJobs == [][C32_EarlierStep]_vars

====
